---- MODULE Spec2Model ----
(***************************************************************************)
(* The trading transaction engine of theway_server: GameService.buyItem,   *)
(* GameService.sellItem and the progression code they call, run as         *)
(* interleaved async calls over the one promisified sqlite3 connection     *)
(* that DatabaseManager.initialize opens.                                  *)
(*                                                                         *)
(* One step of a call is one storage statement together with the           *)
(* synchronous code that follows it up to the next await.  The connection  *)
(* carries the transaction state of sqlite: one transaction per            *)
(* connection, BEGIN inside a transaction fails, COMMIT and ROLLBACK       *)
(* outside a transaction fail, a write outside a transaction is committed  *)
(* at once.                                                                *)
(*                                                                         *)
(* The tables have the columns the statements of GameService.js name       *)
(* (players.location_lat, inventory.current_price, trades.price, ...).     *)
(*                                                                         *)
(* Units: money in won, coordinates and distances in units of 100 m on a   *)
(* local grid, multipliers in percent (grade multipliers in tenths).       *)
(***************************************************************************)
EXTENDS Integers, Sequences, FiniteSets, TLC

\* ------------------------------------------------------------------ bounds

\* Number of request slots (calls that can be in flight together).
MaxCalls == 3

\* Number of calls in the runs checked for liveness.
FairCalls == 2

\* Number of calls in the runs in which the calls follow one another.
SoloCalls == 2

\* Number of calls in the runs of trades that differ in one component.
KeyCalls == 2

\* Number of calls in the runs of trades with large experience grants.
LevelCalls == 2

\* Number of requests in the runs of the stat allocation route.
StatsCalls == 2

\* ------------------------------------------------------- program constants

\* calculateDistance returns Infinity when a coordinate is missing.
Infinity == 1000000

\* The distance gate: distance > 0.5 km fails (5 units of 100 m).
MaxTradeDistance == 5

\* What arithmetic on a basePrice that is missing (undefined) or not numeric
\* yields; such a basePrice itself.
NaN == -1

\* ------------------------------------------------------------ pure helpers

Abs(x) == IF x < 0 THEN -x ELSE x

Min(a, b) == IF a < b THEN a ELSE b

\* Math.floor(a / b) for b > 0.
FloorDiv(a, b) == a \div b

\* A missing column value (undefined / NULL) of a coordinate.
NoCoord == 0

\* calculateDistance: Infinity when any coordinate is falsy, else the
\* great-circle distance, which on the local grid is taken along the grid
\* axes (exact for two points on one meridian or one parallel).
calculateDistance(lat1, lng1, lat2, lng2) ==
    IF lat1 = NoCoord \/ lng1 = NoCoord \/ lat2 = NoCoord \/ lng2 = NoCoord
    THEN Infinity
    ELSE Abs(lat2 - lat1) + Abs(lng2 - lng1)

\* districtMultipliers[district] || 1.0, in percent (the district names are
\* romanized: "Gangnam" is the key '강남구', and so on in the order of the
\* source).
districtMultiplier(district) ==
    CASE district = "Gangnam" -> 130
      [] district = "Seocho" -> 125
      [] district = "Songpa" -> 120
      [] district = "Jung" -> 115
      [] district = "Jongno" -> 110
      [] district = "Yongsan" -> 110
      [] district = "Mapo" -> 105
      [] district = "Seongdong" -> 100
      [] district = "Gwangjin" -> 95
      [] district = "Dongdaemun" -> 90
      [] district = "Jungnang" -> 85
      [] OTHER -> 100

\* Mutant: the evening band runs to the end of the day.
timeMultiplier_lateEvening(hour) ==
    IF hour >= 9 /\ hour <= 18 THEN 110
    ELSE IF hour >= 19 THEN 105
    ELSE 100

\* The time-of-day factor of calculateCurrentPrice, in percent.
timeMultiplier(hour) ==
    IF hour >= 9 /\ hour <= 18 THEN 110
    ELSE IF hour >= 19 /\ hour <= 22 THEN 105
    ELSE 100

\* gradeMultipliers[item.grade] || 1.0, in tenths.
gradeMultiplier(grade) ==
    CASE grade = "common" -> 10
      [] grade = "uncommon" -> 12
      [] grade = "rare" -> 15
      [] grade = "epic" -> 20
      [] grade = "legendary" -> 30
      [] OTHER -> 10

\* floor(a * f / 10^7) without leaving 32-bit integers: f is split at 10^4.
scaleDown(a, f) ==
    FloorDiv(a * (f \div 10000) + FloorDiv(a * (f % 10000), 10000), 1000)

\* calculateCurrentPrice: basePrice times the district, time, random and
\* grade factors, floored (in exact arithmetic).  rnd is 0.95 +
\* Math.random() * 0.1 in percent.  No operation of the try block throws on a
\* basePrice that is missing or not numeric: the products and Math.floor
\* yield NaN, and that is returned.
calculateCurrentPrice(item, district, hour, rnd) ==
    IF item.basePrice = NaN THEN NaN
    ELSE scaleDown(item.basePrice,
                   districtMultiplier(district) * timeMultiplier(hour) * rnd
                       * gradeMultiplier(item.grade))

\* districtBonuses[district] || 0, in percent.
districtBonus(district) ==
    CASE district = "Gangnam" -> 10
      [] district = "Seocho" -> 8
      [] district = "Songpa" -> 5
      [] district = "Jung" -> 3
      [] district = "Jongno" -> 2
      [] OTHER -> 0

\* Mutant: the effective rate is not capped.
calculateSellPrice_uncapped(item, district, rate) ==
    FloorDiv(item.current_price * (rate + districtBonus(district)), 100)

\* calculateSellPrice: floor(current_price * min(rate + bonus, 0.95)); rate
\* is 0.7 + Math.random() * 0.2 in percent.
calculateSellPrice(item, district, rate) ==
    FloorDiv(item.current_price * Min(rate + districtBonus(district), 95), 100)

\* The template literal `${userId}-${merchantId}-${itemName}` as the
\* sequence of its hyphen-separated pieces (the ids of the model hold no
\* hyphen of their own).
buyTradeKey(userId, merchantId, itemName) ==
    <<userId, "-", merchantId, "-", itemName>>

\* The template literal `sell-${userId}-${itemId}`.
sellTradeKey(userId, itemId) ==
    <<"sell", "-", userId, "-", itemId>>

\* ------------------------------------------------------------------ state

VARIABLES
    activeTrades,   \* GameService.activeTrades: the keys of the trades in flight
    db,             \* the tables as the connection sees them
    inTxn,          \* whether the connection has a transaction open
    snap,           \* the tables as they were at the BEGIN of the open transaction
    pc,             \* per call: the statement it issues next
    req,            \* per call: the arguments of the call
    loc,            \* per call: its local variables
    result,         \* per call: what it returned (or that it threw)
    issued,         \* per call: whether it has issued a storage statement
    world,          \* the tables before the first call
    menu,           \* the requests a client may send in this scenario
    limit,          \* the number of calls a client sends in this scenario
    server          \* the fields of the GameServer instance

vars ==
    <<activeTrades, db, inTxn, snap, pc, req, loc, result, issued, world, menu, limit,
      server>>

Calls == 1..MaxCalls

\* What is durably stored: the open transaction's writes are not, until COMMIT.
Persisted == IF inTxn THEN snap ELSE db

\* ------------------------------------------------------------------ rows

\* The GameServer as its constructor leaves it before it calls setupSocket
\* (part_004:29, 44-45): no game service, no timer, no client.  A timer
\* handle is a positive number, 0 stands for null.
NoServer ==
    [priceUpdateInterval |-> 0, timers |-> {}, gameService |-> FALSE,
     connectedClients |-> {}, ioClosed |-> FALSE, dbClosed |-> FALSE,
     exited |-> FALSE, stopped |-> FALSE, pending |-> 0, setups |-> 0,
     ticks |-> 0, skipped |-> 0, emits |-> 0, delivered |-> 0]

NoPlayer ==
    [id |-> "", user_id |-> "", money |-> 0, trust_points |-> 0,
     current_license |-> 0, max_inventory_size |-> 0,
     location_lat |-> NoCoord, location_lng |-> NoCoord]

NoMerchant ==
    [id |-> "", district |-> "", required_license |-> 0,
     location_lat |-> NoCoord, location_lng |-> NoCoord, inventory |-> <<>>]

NoItem ==
    [id |-> "", player_id |-> "", item_id |-> "", item_name |-> "",
     current_price |-> 0]

NoStats ==
    [player_id |-> "", level |-> 0, experience |-> 0, stat_points |-> 0,
     skill_points |-> 0]

NoError == [kind |-> "none", arg |-> 0]

Error(kind) == [kind |-> kind, arg |-> 0]

NoReq == [kind |-> "none", userId |-> "", merchantId |-> "", item |-> ""]

NoLoc ==
    [player |-> NoPlayer, merchant |-> NoMerchant, item |-> NoItem,
     idx |-> 0, price |-> 0, exp |-> 0, err |-> NoError, stats |-> NoStats,
     newExp |-> 0, level |-> 0, statPoints |-> 0, skillPoints |-> 0,
     todo |-> <<>>, pa |-> {}, progress |-> 0, newAchievements |-> {},
     reward |-> [gold |-> 0, experience |-> 0], relationship |-> {}]

NoResult ==
    [status |-> "none", error |-> NoError, price |-> 0, newMoney |-> 0,
     newTrustPoints |-> 0]

NoTables ==
    [players |-> {}, merchants |-> {}, inventory |-> {}, trades |-> {},
     character_stats |-> {}, player_achievements |-> {}, achievements |-> <<>>]

\* The key a request is guarded by.
tradeKey(r) ==
    IF r.kind = "buy" THEN buyTradeKey(r.userId, r.merchantId, r.item)
    ELSE sellTradeKey(r.userId, r.item)

\* db.get: the first row of a SELECT as a set (empty when there is no row).
Get(rows) == IF rows = {} THEN {} ELSE {CHOOSE r \in rows : TRUE}

\* level_requirements as createInitialData seeds it: level -> row.
LevelRows ==
    { [level |-> 1, required_exp |-> 0, stat_points_reward |-> 0, skill_points_reward |-> 0],
      [level |-> 2, required_exp |-> 100, stat_points_reward |-> 2, skill_points_reward |-> 1],
      [level |-> 3, required_exp |-> 250, stat_points_reward |-> 2, skill_points_reward |-> 1],
      [level |-> 4, required_exp |-> 450, stat_points_reward |-> 2, skill_points_reward |-> 1],
      [level |-> 5, required_exp |-> 700, stat_points_reward |-> 3, skill_points_reward |-> 2],
      [level |-> 10, required_exp |-> 2700, stat_points_reward |-> 3, skill_points_reward |-> 2],
      [level |-> 15, required_exp |-> 5000, stat_points_reward |-> 3, skill_points_reward |-> 2],
      [level |-> 20, required_exp |-> 8500, stat_points_reward |-> 4, skill_points_reward |-> 2],
      [level |-> 25, required_exp |-> 13000, stat_points_reward |-> 4, skill_points_reward |-> 3],
      [level |-> 30, required_exp |-> 18500, stat_points_reward |-> 4, skill_points_reward |-> 3],
      [level |-> 50, required_exp |-> 50000, stat_points_reward |-> 6, skill_points_reward |-> 5] }

\* The player's row a request resolves to: players WHERE user_id = ?.
playerOf(tables, userId) == Get({p \in tables.players : p.user_id = userId})

\* inventory.find(i => i.name === itemName): the index of the first stock
\* line of that name, 0 when there is none.
findItem(inventory, itemName) ==
    IF \E i \in 1..Len(inventory) : inventory[i].name = itemName
    THEN CHOOSE i \in 1..Len(inventory) :
            /\ inventory[i].name = itemName
            /\ \A j \in 1..(i - 1) : inventory[j].name # itemName
    ELSE 0

\* uuidv4(): a fresh id; the call's number makes it unique.
inventoryIdOf(c) == "inv" \o ToString(c)

\* The ids of the inventory rows that exist before any call.
InitialItemIds == {"inv0"}

\* --------------------------------------------------- the guard (both flows)

\* Mutant: the guard never finds the key.
isDuplicate_never(key) == FALSE

\* this.activeTrades.has(tradeKey)
isDuplicate(key) == key \in activeTrades

\* Mutant: the key is not deleted.
releaseKey_skipped(key) == activeTrades

\* this.activeTrades.delete(tradeKey), the finally block
releaseKey(key) == activeTrades \ {key}

\* Calls take the slots in the order they arrive.
isNextSlot(c) == IF c = 1 THEN TRUE ELSE pc[c - 1] # "idle"

\* A call arrives (calls take the slots in the order they arrive) and finds
\* its key in activeTrades: it returns the duplicate failure.
RejectDuplicate(c) ==
    /\ pc[c] = "idle"
    /\ c <= limit
    /\ isNextSlot(c)
    /\ \E r \in menu :
        /\ isDuplicate(tradeKey(r))
        /\ req' = [req EXCEPT ![c] = r]
        /\ result' = [result EXCEPT ![c] =
              [NoResult EXCEPT !.status = "failure",
                  !.error = Error(IF r.kind = "buy" THEN "duplicateTrade"
                                  ELSE "duplicateSale")]]
    /\ pc' = [pc EXCEPT ![c] = "done"]
    /\ UNCHANGED <<activeTrades, db, inTxn, snap, loc, issued, world, menu, limit, server>>

\* A call arrives, its key is free: it sets the key and goes on to BEGIN.
AcquireKey(c) ==
    /\ pc[c] = "idle"
    /\ c <= limit
    /\ isNextSlot(c)
    /\ \E r \in menu :
        /\ ~isDuplicate(tradeKey(r))
        /\ req' = [req EXCEPT ![c] = r]
        /\ activeTrades' = activeTrades \cup {tradeKey(r)}
    /\ pc' = [pc EXCEPT ![c] = "begin"]
    /\ UNCHANGED <<db, inTxn, snap, loc, result, issued, world, menu, limit, server>>

\* A statement failed or a precondition threw: control goes to the catch
\* block, which issues ROLLBACK.
Throw(c, e) ==
    /\ pc' = [pc EXCEPT ![c] = "rollback"]
    /\ loc' = [loc EXCEPT ![c].err = e]

\* The call hands a statement to the connection.
Issue(c) == issued' = [issued EXCEPT ![c] = TRUE]

\* The statement that follows BEGIN: the player SELECT of a trade; in the
\* claim route the money UPDATE when rewardData.gold is set, else the first
\* SELECT of giveExperience when rewardData.experience is set, else the
\* UPDATE that marks the row claimed.
afterBegin(r, l) ==
    CASE r.kind = "buy" -> "buyPlayer"
      [] r.kind = "sell" -> "sellPlayer"
      [] OTHER -> IF l.reward.gold # 0 THEN "clGold"
                  ELSE IF l.reward.experience # 0 THEN "geSelect"
                  ELSE "clMark"

\* db.run('BEGIN TRANSACTION'): fails when the connection already has a
\* transaction open.
Begin(c) ==
    /\ pc[c] = "begin"
    /\ Issue(c)
    /\ IF inTxn
       THEN /\ Throw(c, Error("begin"))
            /\ UNCHANGED <<inTxn, snap>>
       ELSE /\ inTxn' = TRUE
            /\ snap' = db
            /\ pc' = [pc EXCEPT ![c] = afterBegin(req[c], loc[c])]
            /\ UNCHANGED loc
    /\ UNCHANGED <<activeTrades, db, req, result, world, menu, limit, server>>

\* ------------------------------------------------------------------ buyItem

\* SELECT * FROM players WHERE user_id = ?
BuySelectPlayer(c) ==
    /\ pc[c] = "buyPlayer"
    /\ Issue(c)
    /\ LET player == playerOf(db, req[c].userId) IN
         IF player = {}
         THEN Throw(c, Error("playerNotFound"))
         ELSE /\ pc' = [pc EXCEPT ![c] = "buyMerchant"]
              /\ loc' = [loc EXCEPT ![c].player = CHOOSE p \in player : TRUE]
    /\ UNCHANGED <<activeTrades, db, inTxn, snap, req, result, world, menu, limit, server>>

\* merchant.required_license > player.current_license
licenseTooLow(merchant, player) ==
    merchant.required_license > player.current_license

\* Mutant: only a negative count is out of stock.
outOfStock_negativeOnly(item) == item.stock < 0

\* item.stock <= 0
outOfStock(item) == item.stock <= 0

\* SELECT * FROM merchants WHERE id = ?, then the license check and the
\* lookup of the stock line in the parsed inventory.
BuySelectMerchant(c) ==
    /\ pc[c] = "buyMerchant"
    /\ Issue(c)
    /\ LET rows == Get({m \in db.merchants : m.id = req[c].merchantId}) IN
         IF rows = {}
         THEN Throw(c, Error("merchantNotFound"))
         ELSE LET merchant == CHOOSE m \in rows : TRUE
                  idx == findItem(merchant.inventory, req[c].item)
              IN  IF licenseTooLow(merchant, loc[c].player)
                  THEN Throw(c, [kind |-> "licenseRequired",
                                 arg |-> merchant.required_license])
                  ELSE IF idx = 0
                  THEN Throw(c, Error("itemNotFound"))
                  ELSE IF outOfStock(merchant.inventory[idx])
                  THEN Throw(c, Error("outOfStock"))
                  ELSE /\ pc' = [pc EXCEPT ![c] = "buyCount"]
                       /\ loc' = [loc EXCEPT ![c].merchant = merchant, ![c].idx = idx]
    /\ UNCHANGED <<activeTrades, db, inTxn, snap, req, result, world, menu, limit, server>>

\* The hours and random factors (percent) the quotes of the interleaved
\* trades are drawn with.
QuoteHours == {14}

QuoteRandoms == {100}

\* Mutant: the boundary distance fails too.
tooFar_exclusive(distance) == distance >= MaxTradeDistance

\* distance > 0.5
tooFar(distance) == distance > MaxTradeDistance

\* Mutant: the distance is checked before the capacity and the funds.
buyChecks_distanceFirst(count, player, currentPrice, distance) ==
    IF tooFar(distance) THEN "tooFar"
    ELSE IF count >= player.max_inventory_size THEN "inventoryFull"
    ELSE IF player.money < currentPrice THEN "insufficientFunds"
    ELSE "none"

\* The checks after the count: capacity, then funds against the quote, then
\* distance; the first that fails is thrown.
buyChecks(count, player, currentPrice, distance) ==
    IF count >= player.max_inventory_size THEN "inventoryFull"
    ELSE IF player.money < currentPrice THEN "insufficientFunds"
    ELSE IF tooFar(distance) THEN "tooFar"
    ELSE "none"

\* SELECT COUNT(*) FROM inventory WHERE player_id = ?, then the capacity
\* check, the quote and the funds check against the player row read
\* earlier, and the distance check.
BuyCountInventory(c) ==
    /\ pc[c] = "buyCount"
    /\ Issue(c)
    /\ \E hour \in QuoteHours, rnd \in QuoteRandoms :
        LET player == loc[c].player
            merchant == loc[c].merchant
            count == Cardinality({i \in db.inventory : i.player_id = player.id})
            currentPrice == calculateCurrentPrice(merchant.inventory[loc[c].idx],
                                                  merchant.district, hour, rnd)
            distance == calculateDistance(player.location_lat, player.location_lng,
                                          merchant.location_lat, merchant.location_lng)
            failure == buyChecks(count, player, currentPrice, distance)
        IN  IF failure # "none"
            THEN Throw(c, Error(failure))
            ELSE /\ pc' = [pc EXCEPT ![c] = "buyDebit"]
                 /\ loc' = [loc EXCEPT ![c].price = currentPrice]
    /\ UNCHANGED <<activeTrades, db, inTxn, snap, req, result, world, menu, limit, server>>

\* UPDATE players SET money = money - ?, trust_points = trust_points + 1
\* WHERE id = ?
BuyDebit(c) ==
    /\ pc[c] = "buyDebit"
    /\ Issue(c)
    /\ db' = [db EXCEPT !.players =
                { IF p.id = loc[c].player.id
                  THEN [p EXCEPT !.money = @ - loc[c].price, !.trust_points = @ + 1]
                  ELSE p : p \in db.players }]
    /\ pc' = [pc EXCEPT ![c] = "buyInsert"]
    /\ UNCHANGED <<activeTrades, inTxn, snap, req, loc, result, world, menu, limit, server>>

\* INSERT INTO inventory (...) with a fresh id and the quoted price; the
\* statement names no item_id, which stays NULL ("").
BuyInsertInventory(c) ==
    /\ pc[c] = "buyInsert"
    /\ Issue(c)
    /\ db' = [db EXCEPT !.inventory = @ \cup
                { [id |-> inventoryIdOf(c), player_id |-> loc[c].player.id,
                   item_id |-> "", item_name |-> req[c].item,
                   current_price |-> loc[c].price] }]
    /\ pc' = [pc EXCEPT ![c] = "buyStock"]
    /\ UNCHANGED <<activeTrades, inTxn, snap, req, loc, result, world, menu, limit, server>>

\* Mutant: the stock is written back as it was read.
decrementStock_none(inventory, idx) == inventory

\* item.stock -= 1 on the parsed inventory
decrementStock(inventory, idx) == [inventory EXCEPT ![idx].stock = @ - 1]

\* item.stock -= 1 on the inventory parsed from the merchant row read
\* earlier, then UPDATE merchants SET inventory = ? WHERE id = ?
BuyUpdateStock(c) ==
    /\ pc[c] = "buyStock"
    /\ Issue(c)
    /\ LET inventory == decrementStock(loc[c].merchant.inventory, loc[c].idx) IN
         db' = [db EXCEPT !.merchants =
                  { IF m.id = req[c].merchantId THEN [m EXCEPT !.inventory = inventory]
                    ELSE m : m \in db.merchants }]
    /\ pc' = [pc EXCEPT ![c] = "buyTrade"]
    /\ UNCHANGED <<activeTrades, inTxn, snap, req, loc, result, world, menu, limit, server>>

\* Mutant: the quotient is rounded up.
buyExperience_ceiling(currentPrice) == FloorDiv(currentPrice + 999, 1000) + 5

\* Math.floor(currentPrice / 1000) + 5
buyExperience(currentPrice) == FloorDiv(currentPrice, 1000) + 5

\* INSERT INTO trades (...) of type 'buy'; then expGained is handed to
\* giveExperience.
BuyInsertTrade(c) ==
    /\ pc[c] = "buyTrade"
    /\ Issue(c)
    /\ db' = [db EXCEPT !.trades = @ \cup
                { [id |-> c, seller_id |-> req[c].merchantId,
                   buyer_id |-> loc[c].player.id, merchant_id |-> req[c].merchantId,
                   item_name |-> req[c].item, price |-> loc[c].price,
                   trade_type |-> "buy"] }]
    /\ pc' = [pc EXCEPT ![c] = "geSelect"]
    /\ loc' = [loc EXCEPT ![c].exp = buyExperience(loc[c].price)]
    /\ UNCHANGED <<activeTrades, inTxn, snap, req, result, world, menu, limit, server>>

\* ----------------------------------------------------------- giveExperience

\* The row INSERT INTO character_stats (player_id) VALUES (?) creates, from
\* the column defaults.
defaultStats(playerId) ==
    [player_id |-> playerId, level |-> 1, experience |-> 0, stat_points |-> 0,
     skill_points |-> 0, strength |-> 10, intelligence |-> 10, charisma |-> 10,
     luck |-> 10]

\* Mutant: the loop body runs at most once.
levelLoop_once(currentLevel, newExp, statPointsToGive, skillPointsToGive) ==
    LET nextLevelReq == {r \in LevelRows : r.level = currentLevel + 1} IN
      IF nextLevelReq = {} \/ newExp < (CHOOSE r \in nextLevelReq : TRUE).required_exp
      THEN [level |-> currentLevel, statPoints |-> statPointsToGive,
            skillPoints |-> skillPointsToGive]
      ELSE LET r == CHOOSE r \in nextLevelReq : TRUE IN
             [level |-> currentLevel + 1,
              statPoints |-> statPointsToGive + r.stat_points_reward,
              skillPoints |-> skillPointsToGive + r.skill_points_reward]

\* The while (true) loop of giveExperience: advance while the next level has
\* a row in level_requirements whose required_exp is reached.
RECURSIVE levelLoop(_, _, _, _)
levelLoop(currentLevel, newExp, statPointsToGive, skillPointsToGive) ==
    LET nextLevelReq == {r \in LevelRows : r.level = currentLevel + 1} IN
      IF nextLevelReq = {} \/ newExp < (CHOOSE r \in nextLevelReq : TRUE).required_exp
      THEN [level |-> currentLevel, statPoints |-> statPointsToGive,
            skillPoints |-> skillPointsToGive]
      ELSE LET r == CHOOSE r \in nextLevelReq : TRUE IN
             levelLoop(currentLevel + 1, newExp,
                       statPointsToGive + r.stat_points_reward,
                       skillPointsToGive + r.skill_points_reward)

\* The locals giveExperience computes from the row it read: newExp and the
\* outcome of the level loop (the loop's reads are of a table no call writes).
afterStats(l, stats) ==
    LET newExp == stats.experience + l.exp
        up == levelLoop(stats.level, newExp, 0, 0)
    IN  [l EXCEPT !.stats = stats, !.newExp = newExp, !.level = up.level,
                  !.statPoints = up.statPoints, !.skillPoints = up.skillPoints]

\* Where giveExperience returns to: checkAchievements in a trade, the UPDATE
\* that marks the row claimed in the claim route, the caller of a direct call.
afterGrant(r) ==
    CASE r.kind = "claim" -> "clMark"
      [] r.kind = "grant" -> "lpReturn"
      [] OTHER -> "caSelectAll"

\* SELECT * FROM character_stats WHERE player_id = ?
GeSelect(c) ==
    /\ pc[c] = "geSelect"
    /\ Issue(c)
    /\ LET rows == Get({s \in db.character_stats : s.player_id = loc[c].player.id}) IN
         IF rows = {}
         THEN /\ pc' = [pc EXCEPT ![c] = "geInsert"]
              /\ UNCHANGED loc
         ELSE /\ pc' = [pc EXCEPT ![c] = "geUpdate"]
              /\ loc' = [loc EXCEPT ![c] = afterStats(@, CHOOSE s \in rows : TRUE)]
    /\ UNCHANGED <<activeTrades, db, inTxn, snap, req, result, world, menu, limit, server>>

\* INSERT INTO character_stats (player_id) VALUES (?): player_id is the
\* primary key, a second row for the player is refused.
GeInsert(c) ==
    /\ pc[c] = "geInsert"
    /\ Issue(c)
    /\ IF \E s \in db.character_stats : s.player_id = loc[c].player.id
       THEN /\ Throw(c, Error("uniqueConstraint"))
            /\ UNCHANGED db
       ELSE /\ db' = [db EXCEPT !.character_stats = @ \cup {defaultStats(loc[c].player.id)}]
            /\ pc' = [pc EXCEPT ![c] = "geSelectAgain"]
            /\ UNCHANGED loc
    /\ UNCHANGED <<activeTrades, inTxn, snap, req, result, world, menu, limit, server>>

\* The second SELECT after the insert; without a row characterStats.experience
\* is a TypeError.
GeSelectAgain(c) ==
    /\ pc[c] = "geSelectAgain"
    /\ Issue(c)
    /\ LET rows == Get({s \in db.character_stats : s.player_id = loc[c].player.id}) IN
         IF rows = {}
         THEN Throw(c, Error("typeError"))
         ELSE /\ pc' = [pc EXCEPT ![c] = "geUpdate"]
              /\ loc' = [loc EXCEPT ![c] = afterStats(@, CHOOSE s \in rows : TRUE)]
    /\ UNCHANGED <<activeTrades, db, inTxn, snap, req, result, world, menu, limit, server>>

\* UPDATE character_stats SET experience = ?, level = ?, stat_points =
\* stat_points + ?, skill_points = skill_points + ? WHERE player_id = ?
GeUpdate(c) ==
    /\ pc[c] = "geUpdate"
    /\ Issue(c)
    /\ db' = [db EXCEPT !.character_stats =
                { IF s.player_id = loc[c].player.id
                  THEN [s EXCEPT !.experience = loc[c].newExp, !.level = loc[c].level,
                                 !.stat_points = @ + loc[c].statPoints,
                                 !.skill_points = @ + loc[c].skillPoints]
                  ELSE s : s \in db.character_stats }]
    /\ pc' = [pc EXCEPT ![c] = afterGrant(req[c])]
    /\ UNCHANGED <<activeTrades, inTxn, snap, req, loc, result, world, menu, limit, server>>

\* -------------------------------------------------------- checkAchievements

\* Mutant: the trade count also counts the player's progress rows.
calculateAchievementProgress_selfCounting(tables, playerId, achievement) ==
    Cardinality({t \in tables.trades :
                    t.seller_id = playerId \/ t.buyer_id = playerId})
      + Cardinality({a \in tables.player_achievements : a.player_id = playerId})

\* calculateAchievementProgress: one aggregate per condition type.
calculateAchievementProgress(tables, playerId, achievement) ==
    CASE achievement.condition_type = "trade_count" ->
           Cardinality({t \in tables.trades :
                           t.seller_id = playerId \/ t.buyer_id = playerId})
      [] achievement.condition_type = "level_reached" ->
           LET stats == {s \in tables.character_stats : s.player_id = playerId} IN
             IF stats = {} \/ (CHOOSE s \in stats : TRUE).level = 0 THEN 1
             ELSE (CHOOSE s \in stats : TRUE).level
      [] achievement.condition_type = "unique_items" ->
           Cardinality({i.item_id : i \in {j \in tables.inventory :
                                              j.player_id = playerId}} \ {""})
      [] OTHER -> 0

\* Where checkAchievements returns to: the COMMIT of a trade, or the response
\* of POST /achievements/check.
afterCheck(r) == IF r.kind = "check" THEN "ckReturn" ELSE "commit"

\* The next iteration of the for loop, or the return when the list is done.
nextAchievement(c, l) ==
    /\ pc' = [pc EXCEPT ![c] = IF Len(l.todo) > 1 THEN "caCompleted"
                               ELSE afterCheck(req[c])]
    /\ loc' = [loc EXCEPT ![c] = [l EXCEPT !.todo = Tail(@), !.pa = {}, !.progress = 0]]

\* SELECT * FROM achievements
CaSelectAll(c) ==
    /\ pc[c] = "caSelectAll"
    /\ Issue(c)
    /\ pc' = [pc EXCEPT ![c] = IF db.achievements = <<>> THEN afterCheck(req[c])
                               ELSE "caCompleted"]
    /\ loc' = [loc EXCEPT ![c].todo = db.achievements]
    /\ UNCHANGED <<activeTrades, db, inTxn, snap, req, result, world, menu, limit, server>>

\* SELECT * FROM player_achievements WHERE player_id = ? AND achievement_id
\* = ? AND is_completed = 1: a completed achievement is skipped.
CaSelectCompleted(c) ==
    /\ pc[c] = "caCompleted"
    /\ Issue(c)
    /\ IF \E a \in db.player_achievements :
            /\ a.player_id = loc[c].player.id
            /\ a.achievement_id = Head(loc[c].todo).id
            /\ a.is_completed = 1
       THEN nextAchievement(c, loc[c])
       ELSE /\ pc' = [pc EXCEPT ![c] = "caRow"]
            /\ UNCHANGED loc
    /\ UNCHANGED <<activeTrades, db, inTxn, snap, req, result, world, menu, limit, server>>

\* SELECT * FROM player_achievements WHERE player_id = ? AND achievement_id = ?
CaSelectRow(c) ==
    /\ pc[c] = "caRow"
    /\ Issue(c)
    /\ loc' = [loc EXCEPT ![c].pa =
                 Get({a \in db.player_achievements :
                         /\ a.player_id = loc[c].player.id
                         /\ a.achievement_id = Head(loc[c].todo).id})]
    /\ pc' = [pc EXCEPT ![c] = "caProgress"]
    /\ UNCHANGED <<activeTrades, db, inTxn, snap, req, result, world, menu, limit, server>>

\* !playerAchievement || currentProgress > (playerAchievement.progress || 0)
needsUpdate(pa, currentProgress) ==
    pa = {} \/ currentProgress > (CHOOSE a \in pa : TRUE).progress

\* The aggregate query of calculateAchievementProgress, then needsUpdate.
CaProgress(c) ==
    /\ pc[c] = "caProgress"
    /\ Issue(c)
    /\ LET currentProgress ==
             calculateAchievementProgress(db, loc[c].player.id, Head(loc[c].todo))
       IN  IF needsUpdate(loc[c].pa, currentProgress)
           THEN /\ pc' = [pc EXCEPT ![c] = "caWrite"]
                /\ loc' = [loc EXCEPT ![c].progress = currentProgress]
           ELSE nextAchievement(c, loc[c])
    /\ UNCHANGED <<activeTrades, db, inTxn, snap, req, result, world, menu, limit, server>>

\* Mutant: the target has to be passed, not reached.
isCompleted_passed(currentProgress, achievement) ==
    currentProgress > achievement.condition_value

\* const isCompleted = currentProgress >= achievement.condition_value
isCompleted(currentProgress, achievement) ==
    currentProgress >= achievement.condition_value

\* The INSERT (no row was read) or the UPDATE (a row was read) of the
\* progress row; completed_at is the time of the call (its number here).
\* UNIQUE(player_id, achievement_id) refuses a second row; the catch block
\* of checkAchievements swallows the error and returns [].
CaWrite(c) ==
    /\ pc[c] = "caWrite"
    /\ Issue(c)
    /\ LET achievement == Head(loc[c].todo)
           playerId == loc[c].player.id
           completed == isCompleted(loc[c].progress, achievement)
           mine(a) == a.player_id = playerId /\ a.achievement_id = achievement.id
           newlyCompleted ==
               /\ completed
               /\ loc[c].pa = {} \/ (CHOOSE a \in loc[c].pa : TRUE).is_completed = 0
           pushed == [loc[c] EXCEPT !.newAchievements =
                         IF newlyCompleted THEN @ \cup {achievement.id} ELSE @]
       IN  IF loc[c].pa = {}
           THEN IF \E a \in db.player_achievements : mine(a)
                THEN /\ pc' = [pc EXCEPT ![c] = afterCheck(req[c])]
                     /\ loc' = [loc EXCEPT ![c].newAchievements = {}, ![c].todo = <<>>,
                                           ![c].pa = {}, ![c].progress = 0]
                     /\ UNCHANGED db
                ELSE /\ db' = [db EXCEPT !.player_achievements = @ \cup
                                 { [player_id |-> playerId,
                                    achievement_id |-> achievement.id,
                                    progress |-> loc[c].progress,
                                    is_completed |-> IF completed THEN 1 ELSE 0,
                                    completed_at |-> IF completed THEN c ELSE 0,
                                    claimed |-> 0] }]
                     /\ nextAchievement(c, pushed)
           ELSE /\ db' = [db EXCEPT !.player_achievements =
                            { IF mine(a)
                              THEN [a EXCEPT !.progress = loc[c].progress,
                                      !.is_completed = IF completed THEN 1 ELSE 0,
                                      !.completed_at =
                                          IF completed THEN c
                                          ELSE (CHOOSE x \in loc[c].pa : TRUE).completed_at]
                              ELSE a : a \in db.player_achievements }]
                /\ nextAchievement(c, pushed)
    /\ UNCHANGED <<activeTrades, inTxn, snap, req, result, world, menu, limit, server>>

\* ----------------------------------------------------------------- sellItem

\* SELECT * FROM players WHERE user_id = ?
SellSelectPlayer(c) ==
    /\ pc[c] = "sellPlayer"
    /\ Issue(c)
    /\ LET player == playerOf(db, req[c].userId) IN
         IF player = {}
         THEN Throw(c, Error("playerNotFound"))
         ELSE /\ pc' = [pc EXCEPT ![c] = "sellItem"]
              /\ loc' = [loc EXCEPT ![c].player = CHOOSE p \in player : TRUE]
    /\ UNCHANGED <<activeTrades, db, inTxn, snap, req, result, world, menu, limit, server>>

\* Mutant: the row is looked up by its id alone.
ownedItem_anyOwner(tables, itemId, playerId) ==
    Get({i \in tables.inventory : i.id = itemId})

\* SELECT * FROM inventory WHERE id = ? AND player_id = ?
ownedItem(tables, itemId, playerId) ==
    Get({i \in tables.inventory : i.id = itemId /\ i.player_id = playerId})

\* The SELECT of the owned row; without a row the call throws.
SellSelectItem(c) ==
    /\ pc[c] = "sellItem"
    /\ Issue(c)
    /\ LET rows == ownedItem(db, req[c].item, loc[c].player.id) IN
         IF rows = {}
         THEN Throw(c, Error("itemNotFound"))
         ELSE /\ pc' = [pc EXCEPT ![c] = "sellMerchant"]
              /\ loc' = [loc EXCEPT ![c].item = CHOOSE i \in rows : TRUE]
    /\ UNCHANGED <<activeTrades, db, inTxn, snap, req, result, world, menu, limit, server>>

\* The sell rates (percent) the interleaved sells are drawn with.
SellRates == {80}

\* SELECT * FROM merchants WHERE id = ?, then the distance check and
\* calculateSellPrice.
SellSelectMerchant(c) ==
    /\ pc[c] = "sellMerchant"
    /\ Issue(c)
    /\ \E rate \in SellRates :
        LET rows == Get({m \in db.merchants : m.id = req[c].merchantId})
            player == loc[c].player
        IN  IF rows = {}
            THEN Throw(c, Error("merchantNotFound"))
            ELSE LET merchant == CHOOSE m \in rows : TRUE
                     distance == calculateDistance(
                                     player.location_lat, player.location_lng,
                                     merchant.location_lat, merchant.location_lng)
                 IN  IF tooFar(distance)
                     THEN Throw(c, Error("tooFar"))
                     ELSE /\ pc' = [pc EXCEPT ![c] = "sellCredit"]
                          /\ loc' = [loc EXCEPT ![c].merchant = merchant,
                                       ![c].price = calculateSellPrice(
                                                        loc[c].item, merchant.district, rate)]
    /\ UNCHANGED <<activeTrades, db, inTxn, snap, req, result, world, menu, limit, server>>

\* UPDATE players SET money = money + ?, trust_points = trust_points + 2
\* WHERE id = ?
SellCredit(c) ==
    /\ pc[c] = "sellCredit"
    /\ Issue(c)
    /\ db' = [db EXCEPT !.players =
                { IF p.id = loc[c].player.id
                  THEN [p EXCEPT !.money = @ + loc[c].price, !.trust_points = @ + 2]
                  ELSE p : p \in db.players }]
    /\ pc' = [pc EXCEPT ![c] = "sellDelete"]
    /\ UNCHANGED <<activeTrades, inTxn, snap, req, loc, result, world, menu, limit, server>>

\* DELETE FROM inventory WHERE id = ?
SellDeleteItem(c) ==
    /\ pc[c] = "sellDelete"
    /\ Issue(c)
    /\ db' = [db EXCEPT !.inventory = {i \in @ : i.id # req[c].item}]
    /\ pc' = [pc EXCEPT ![c] = "sellTrade"]
    /\ UNCHANGED <<activeTrades, inTxn, snap, req, loc, result, world, menu, limit, server>>

\* Math.floor(sellPrice / 800) + 8
sellExperience(sellPrice) == FloorDiv(sellPrice, 800) + 8

\* INSERT INTO trades (...) of type 'sell'; then expGained is handed to
\* giveExperience.
SellInsertTrade(c) ==
    /\ pc[c] = "sellTrade"
    /\ Issue(c)
    /\ db' = [db EXCEPT !.trades = @ \cup
                { [id |-> c, seller_id |-> loc[c].player.id,
                   buyer_id |-> req[c].merchantId, merchant_id |-> req[c].merchantId,
                   item_name |-> loc[c].item.item_name, price |-> loc[c].price,
                   trade_type |-> "sell"] }]
    /\ pc' = [pc EXCEPT ![c] = "geSelect"]
    /\ loc' = [loc EXCEPT ![c].exp = sellExperience(loc[c].price)]
    /\ UNCHANGED <<activeTrades, inTxn, snap, req, result, world, menu, limit, server>>

\* ------------------------------------------------- the end of a trade call

\* The success result: newMoney and newTrustPoints are computed from the
\* player row read at the start.
successResult(r, l) ==
    [status |-> "success", error |-> NoError, price |-> l.price,
     newMoney |-> IF r.kind = "buy" THEN l.player.money - l.price
                  ELSE l.player.money + l.price,
     newTrustPoints |-> IF r.kind = "buy" THEN l.player.trust_points + 1
                        ELSE l.player.trust_points + 2]

\* The finally block of a trade releases its key; the claim route holds none.
releaseOf(r) ==
    IF r.kind \in {"buy", "sell"} THEN releaseKey(tradeKey(r)) ELSE activeTrades

\* db.run('COMMIT'): fails when no transaction is open; on success the call
\* returns its result and the finally block releases the key.
Commit(c) ==
    /\ pc[c] = "commit"
    /\ Issue(c)
    /\ IF inTxn
       THEN /\ inTxn' = FALSE
            /\ snap' = NoTables
            /\ pc' = [pc EXCEPT ![c] = "done"]
            /\ result' = [result EXCEPT ![c] = successResult(req[c], loc[c])]
            /\ activeTrades' = releaseOf(req[c])
            /\ loc' = [loc EXCEPT ![c] = NoLoc]
       ELSE /\ Throw(c, Error("commit"))
            /\ UNCHANGED <<activeTrades, inTxn, snap, result>>
    /\ UNCHANGED <<db, req, world, menu, limit, server>>

\* The catch block: db.run('ROLLBACK') fails when no transaction is open,
\* and then the call throws instead of returning; else the tables go back to
\* their state at BEGIN and the call returns the failure.  The finally block
\* releases the key either way.
Rollback(c) ==
    /\ pc[c] = "rollback"
    /\ Issue(c)
    /\ IF inTxn
       THEN /\ db' = snap
            /\ inTxn' = FALSE
            /\ snap' = NoTables
            /\ result' = [result EXCEPT ![c] =
                  [NoResult EXCEPT !.status = "failure", !.error = loc[c].err]]
       ELSE /\ result' = [result EXCEPT ![c] =
                  [NoResult EXCEPT !.status = "thrown", !.error = Error("rollback")]]
            /\ UNCHANGED <<db, inTxn, snap>>
    /\ activeTrades' = releaseOf(req[c])
    /\ pc' = [pc EXCEPT ![c] = "done"]
    /\ loc' = [loc EXCEPT ![c] = NoLoc]
    /\ UNCHANGED <<req, world, menu, limit, server>>

\* ------------------------------------------------------------ the scenario

StockLine(name, basePrice, stock) ==
    [name |-> name, category |-> "modern", basePrice |-> basePrice,
     grade |-> "common", stock |-> stock]

\* One player without a character_stats row yet, near a merchant the player
\* is licensed for, with money for either item of that merchant but not for
\* both and room for one more item; and a merchant of a higher license tier.
TradeWorld ==
    [players |->
        { [id |-> "p1", user_id |-> "u1", money |-> 9000, trust_points |-> 0,
           current_license |-> 1, max_inventory_size |-> 2,
           location_lat |-> 10, location_lng |-> 20] },
     merchants |->
        { [id |-> "m1", district |-> "Gangnam", required_license |-> 1,
           location_lat |-> 12, location_lng |-> 20,
           inventory |-> <<StockLine("a", 5000, 1), StockLine("b", 3000, 1)>>],
          [id |-> "m2", district |-> "Mapo", required_license |-> 2,
           location_lat |-> 10, location_lng |-> 20,
           inventory |-> <<StockLine("a", 5000, 1)>>] },
     inventory |->
        { [id |-> "inv0", player_id |-> "p1", item_id |-> "it_a", item_name |-> "a",
           current_price |-> 6000] },
     trades |-> {},
     character_stats |-> {},
     player_achievements |-> {},
     achievements |->
        << [id |-> "first_trade", condition_type |-> "trade_count",
            condition_value |-> 1] >>]

Buy(userId, merchantId, itemName) ==
    [kind |-> "buy", userId |-> userId, merchantId |-> merchantId, item |-> itemName]

Sell(userId, itemId, merchantId) ==
    [kind |-> "sell", userId |-> userId, merchantId |-> merchantId, item |-> itemId]

TradeRequests ==
    { Buy("u1", "m1", "a"), Buy("u1", "m1", "b"), Buy("u1", "m2", "a"),
      Sell("u1", "inv0", "m1") }

InitCalls ==
    /\ server = NoServer
    /\ activeTrades = {}
    /\ inTxn = FALSE
    /\ snap = NoTables
    /\ pc = [c \in Calls |-> "idle"]
    /\ req = [c \in Calls |-> NoReq]
    /\ loc = [c \in Calls |-> NoLoc]
    /\ result = [c \in Calls |-> NoResult]
    /\ issued = [c \in Calls |-> FALSE]

Init ==
    /\ InitCalls
    /\ db = TradeWorld
    /\ world = TradeWorld
    /\ menu = TradeRequests
    /\ limit = MaxCalls

\* The steps of the guard, of buyItem and of the progression code it calls.
BuyStep(c) ==
    \/ RejectDuplicate(c)
    \/ AcquireKey(c)
    \/ Begin(c)
    \/ BuySelectPlayer(c)
    \/ BuySelectMerchant(c)
    \/ BuyCountInventory(c)
    \/ BuyDebit(c)
    \/ BuyInsertInventory(c)
    \/ BuyUpdateStock(c)
    \/ BuyInsertTrade(c)
    \/ GeSelect(c)
    \/ GeInsert(c)
    \/ GeSelectAgain(c)
    \/ GeUpdate(c)
    \/ CaSelectAll(c)
    \/ CaSelectCompleted(c)
    \/ CaSelectRow(c)
    \/ CaProgress(c)
    \/ CaWrite(c)
    \/ Commit(c)
    \/ Rollback(c)

\* The steps of sellItem before the progression code.
SellStep(c) ==
    \/ SellSelectPlayer(c)
    \/ SellSelectItem(c)
    \/ SellSelectMerchant(c)
    \/ SellCredit(c)
    \/ SellDeleteItem(c)
    \/ SellInsertTrade(c)

Step(c) == BuyStep(c) \/ SellStep(c)

Next == \E c \in Calls : Step(c)

\* Interleaved buys and sells of one player.
Spec == Init /\ [][Next]_vars

FairInit ==
    /\ InitCalls
    /\ db = TradeWorld
    /\ world = TradeWorld
    /\ menu = TradeRequests
    /\ limit = FairCalls

\* Interleaved trades in which every call that can take a step eventually
\* takes one: the connection completes every statement and the event loop
\* resumes the call that awaits it.
FairSpec == FairInit /\ [][Next]_vars /\ \A c \in Calls : WF_vars(Step(c))

\* Two requests for the last piece of one stock line, in worlds that differ
\* in the player's money, capacity and progress row.
PairWorlds ==
    { [TradeWorld EXCEPT
          !.players = { [p EXCEPT !.money = money, !.max_inventory_size = size]
                         : p \in TradeWorld.players },
          !.character_stats = stats]
      : money \in {7000, 20000}, size \in {1, 3},
        stats \in { {}, { [player_id |-> "p1", level |-> 1, experience |-> 95,
                           stat_points |-> 0, skill_points |-> 0] } } }

PairInit ==
    /\ InitCalls
    /\ db \in PairWorlds
    /\ world = db
    /\ menu = {Buy("u1", "m1", "a")}
    /\ limit = 2

NextBuy == \E c \in Calls : BuyStep(c)

PairSpec == PairInit /\ [][NextBuy]_vars

\* ------------------------------------- trades that differ in one component

\* Sells of one row to two merchants, and buys of one item name from them.
KeyRequests ==
    { Sell("u1", "inv0", "m1"), Sell("u1", "inv0", "m2"),
      Buy("u1", "m1", "a"), Buy("u1", "m2", "a") }

KeyInit ==
    /\ InitCalls
    /\ db = TradeWorld
    /\ world = TradeWorld
    /\ menu = KeyRequests
    /\ limit = KeyCalls

KeySpec == KeyInit /\ [][Next]_vars

\* ------------------------------------------------------- calls one at a time

\* A second player, who owns one inventory row.
OtherPlayer ==
    [id |-> "p2", user_id |-> "u2", money |-> 1000, trust_points |-> 0,
     current_license |-> 1, max_inventory_size |-> 2,
     location_lat |-> 10, location_lng |-> 20]

\* The latitudes of the first player in the worlds of the calls that run one
\* at a time: at distance 2, 5 and 6 (units of 100 m) from merchant m1, and
\* not recorded.
SoloLatitudes == {10, 7, 6, NoCoord}

SoloWorlds ==
    { [TradeWorld EXCEPT
          !.players =
              { [p EXCEPT !.location_lat = lat,
                          !.location_lng = IF lat = NoCoord THEN NoCoord ELSE @]
                  : p \in TradeWorld.players } \cup {OtherPlayer},
          !.inventory = @ \cup
              { [id |-> "inv9", player_id |-> "p2", item_id |-> "it_b",
                 item_name |-> "b", current_price |-> 4000] }]
      : lat \in SoloLatitudes }

\* The trades of the first player: the buys and the sell of TradeRequests,
\* the sell of the row the first call's buy inserts, of a row of the second
\* player and of a row that does not exist.
SoloRequests ==
    TradeRequests \cup
        { Sell("u1", inventoryIdOf(1), "m1"), Sell("u1", "inv9", "m1"),
          Sell("u1", "inv404", "m1"), Sell("u2", "inv9", "m1") }

SoloInit ==
    /\ InitCalls
    /\ db \in SoloWorlds
    /\ world = db
    /\ menu = SoloRequests
    /\ limit = SoloCalls

\* No other call is in flight.
Alone(c) == \A d \in Calls \ {c} : pc[d] \in {"idle", "done"}

\* A call arrives when no other call is in flight: the guard finds the key
\* free.
SoloArrive(c) == Alone(c) /\ AcquireKey(c)

\* A step of a call that runs with no other call in flight.
SoloStep(c) ==
        \/ SoloArrive(c)
        \/ Begin(c)
        \/ BuySelectPlayer(c)
        \/ BuySelectMerchant(c)
        \/ BuyCountInventory(c)
        \/ BuyDebit(c)
        \/ BuyInsertInventory(c)
        \/ BuyUpdateStock(c)
        \/ BuyInsertTrade(c)
        \/ SellSelectPlayer(c)
        \/ SellSelectItem(c)
        \/ SellSelectMerchant(c)
        \/ SellCredit(c)
        \/ SellDeleteItem(c)
        \/ SellInsertTrade(c)
        \/ GeSelect(c)
        \/ GeInsert(c)
        \/ GeSelectAgain(c)
        \/ GeUpdate(c)
        \/ CaSelectAll(c)
        \/ CaSelectCompleted(c)
        \/ CaSelectRow(c)
        \/ CaProgress(c)
        \/ CaWrite(c)
        \/ Commit(c)
        \/ Rollback(c)

SoloNext == \E c \in Calls : SoloStep(c)

\* Trades that run one after the other.
SoloSpec == SoloInit /\ [][SoloNext]_vars

\* ------------------------------------------- trades with large grants

\* The progress rows of the first player in the worlds of the large grants:
\* none yet, and rows below the thresholds of levels 2, 3 and 5.
LevelStatsRows ==
    { {} } \cup
    { { [defaultStats("p1") EXCEPT !.level = s[1], !.experience = s[2]] }
        : s \in {<<1, 95>>, <<2, 240>>, <<4, 690>>} }

\* A rich player and a merchant whose three lines quote 7150, 255255 and
\* 446160, which grant 12, 260 and 451 experience.
LevelWorlds ==
    { [TradeWorld EXCEPT
          !.players = { [p EXCEPT !.money = 1000000, !.max_inventory_size = 5]
                          : p \in TradeWorld.players },
          !.merchants =
              { IF m.id = "m1"
                THEN [m EXCEPT !.inventory =
                        <<StockLine("a", 5000, 1), StockLine("x", 178500, 1),
                          StockLine("y", 312000, 1)>>]
                ELSE m : m \in TradeWorld.merchants },
          !.character_stats = stats]
      : stats \in LevelStatsRows }

LevelRequests ==
    { Buy("u1", "m1", "a"), Buy("u1", "m1", "x"), Buy("u1", "m1", "y"),
      Buy("u1", "m2", "a"), Sell("u1", "inv0", "m1") }

LevelInit ==
    /\ InitCalls
    /\ db \in LevelWorlds
    /\ world = db
    /\ menu = LevelRequests
    /\ limit = LevelCalls

\* Trades with large grants, one after the other.
LevelSpec == LevelInit /\ [][SoloNext]_vars

\* ------------------------------------------------------- the price functions

\* The inputs the two price functions are applied to: catalog prices, grades
\* and districts (listed with the highest and the lowest factor, and not
\* listed; "mythic" is no grade of the table), hours of the three bands and
\* on either side of their ends, the ends and the middle of the random
\* factor (percent), and sell rates from 0.70 to 0.90 (percent).
QuoteBasePrices == {1, 3, 100, 5000}

QuoteGrades == {"common", "legendary", "mythic"}

QuoteDistricts == {"Gangnam", "Jungnang", "Jongno", "Nowon"}

QuoteAllHours == {3, 8, 9, 14, 18, 19, 20, 22, 23}

QuoteAllRandoms == {95, 100, 105}

QuoteSellRates == {70, 80, 86, 90}

\* The recorded prices calculateSellPrice is applied to directly.
RecordedPrices == {0, 1, 19, 20, 100, 6000}

QuoteInputs ==
    [kind : {"quote"}, userId : {""}, merchantId : {""}, item : {""},
     basePrice : QuoteBasePrices, grade : QuoteGrades, district : QuoteDistricts,
     hour : QuoteAllHours, rnd : QuoteAllRandoms, rate : QuoteSellRates]

\* Call 1 is about to quote a buy, or holds a row with a recorded price and
\* is about to quote its sale.
QuoteInit ==
    /\ server = NoServer
    /\ activeTrades = {}
    /\ inTxn = FALSE
    /\ snap = NoTables
    /\ db = NoTables
    /\ world = NoTables
    /\ menu = {}
    /\ limit = 1
    /\ result = [c \in Calls |-> NoResult]
    /\ issued = [c \in Calls |-> FALSE]
    /\ \E r \in QuoteInputs :
          \/ /\ req = [c \in Calls |-> IF c = 1 THEN r ELSE NoReq]
             /\ pc = [c \in Calls |-> IF c = 1 THEN "quoteBuy" ELSE "idle"]
             /\ loc = [c \in Calls |-> NoLoc]
          \/ \* the sale alone: of the inputs only district and rate matter
             /\ r.basePrice = 1 /\ r.grade = "common" /\ r.hour = 3 /\ r.rnd = 100
             /\ req = [c \in Calls |-> IF c = 1 THEN [r EXCEPT !.kind = "sellQuote"]
                                        ELSE NoReq]
             /\ pc = [c \in Calls |-> IF c = 1 THEN "quoteSell" ELSE "idle"]
             /\ \E p \in RecordedPrices :
                   loc = [c \in Calls |->
                            IF c = 1 THEN [NoLoc EXCEPT !.item.current_price = p]
                            ELSE NoLoc]

\* const currentPrice = await this.calculateCurrentPrice(item, merchant.district),
\* recorded as current_price of the inventory row the buy inserts.
QuoteBuy(c) ==
    /\ pc[c] = "quoteBuy"
    /\ LET currentPrice ==
             calculateCurrentPrice([basePrice |-> req[c].basePrice, grade |-> req[c].grade],
                                   req[c].district, req[c].hour, req[c].rnd)
       IN  loc' = [loc EXCEPT ![c].price = currentPrice,
                              ![c].item.current_price = currentPrice]
    /\ pc' = [pc EXCEPT ![c] = "quoteSell"]
    /\ UNCHANGED <<activeTrades, db, inTxn, snap, req, result, issued, world, menu, limit, server>>

\* const sellPrice = await this.calculateSellPrice(item, merchant.district)
QuoteSell(c) ==
    /\ pc[c] = "quoteSell"
    /\ result' = [result EXCEPT ![c] =
          [NoResult EXCEPT !.status = "quoted",
              !.price = calculateSellPrice(loc[c].item, req[c].district, req[c].rate)]]
    /\ pc' = [pc EXCEPT ![c] = "done"]
    /\ UNCHANGED <<activeTrades, db, inTxn, snap, req, loc, issued, world, menu, limit, server>>

QuoteNext == \E c \in Calls : QuoteBuy(c) \/ QuoteSell(c)

\* The quote of a buy followed by the quote of the sale of what was bought.
QuoteSpec == QuoteInit /\ [][QuoteNext]_vars

\* --------------------------------------------------- quotes of malformed items

\* Stock lines as the inventory text of a merchant may hold them: with a
\* basePrice or without a usable one, with a grade or without ("").
MalformedInputs ==
    [kind : {"quote"}, userId : {""}, merchantId : {""}, item : {""},
     basePrice : {NaN, 1, 100, 5000}, grade : {"", "common", "legendary"},
     district : QuoteDistricts, hour : {3, 14, 20}, rnd : QuoteAllRandoms,
     rate : {80}]

MalformedInit ==
    /\ server = NoServer
    /\ activeTrades = {}
    /\ inTxn = FALSE
    /\ snap = NoTables
    /\ loc = [c \in Calls |-> NoLoc]
    /\ result = [c \in Calls |-> NoResult]
    /\ issued = [c \in Calls |-> FALSE]
    /\ db = NoTables
    /\ world = NoTables
    /\ menu = {}
    /\ limit = 1
    /\ \E r \in MalformedInputs :
          /\ req = [c \in Calls |-> IF c = 1 THEN r ELSE NoReq]
          /\ pc = [c \in Calls |-> IF c = 1 THEN "quoteBuy" ELSE "idle"]

MalformedNext == \E c \in Calls : QuoteBuy(c)

\* The quote of a buy of a stock line that may be malformed.
MalformedSpec == MalformedInit /\ [][MalformedNext]_vars

\* ------------------------------------------- buys that fail in several ways

\* Number of calls in the runs of buys with several failing preconditions.
OrderCalls == 1

\* The player with or without money, with room for one more item or none,
\* near the merchants, far from them or without a position; the first
\* merchant with line "a" in stock or sold out.
OrderWorlds ==
    { [TradeWorld EXCEPT
         !.players = { [p EXCEPT !.money = money, !.max_inventory_size = size,
                                 !.location_lat = lat,
                                 !.location_lng = IF lat = NoCoord THEN NoCoord ELSE @] :
                         p \in TradeWorld.players },
         !.merchants = { IF m.id = "m1" THEN [m EXCEPT !.inventory[1].stock = stock]
                         ELSE m : m \in TradeWorld.merchants }] :
        money \in {0, 9000}, size \in {1, 2}, lat \in {10, 6, NoCoord}, stock \in {0, 1} }

OrderRequests ==
    {Buy(u, m, i) : u \in {"u1", "u404"}, m \in {"m1", "m2", "m404"}, i \in {"a", "zzz"}}

OrderInit ==
    /\ InitCalls
    /\ db \in OrderWorlds
    /\ world = db
    /\ menu = OrderRequests
    /\ limit = OrderCalls

\* A step of a buy that runs with no other call in flight.
OrderStep(c) ==
    \/ SoloArrive(c)
    \/ Begin(c)
    \/ BuySelectPlayer(c)
    \/ BuySelectMerchant(c)
    \/ BuyCountInventory(c)
    \/ BuyDebit(c)
    \/ BuyInsertInventory(c)
    \/ BuyUpdateStock(c)
    \/ BuyInsertTrade(c)
    \/ GeSelect(c)
    \/ GeInsert(c)
    \/ GeSelectAgain(c)
    \/ GeUpdate(c)
    \/ CaSelectAll(c)
    \/ CaSelectCompleted(c)
    \/ CaSelectRow(c)
    \/ CaProgress(c)
    \/ CaWrite(c)
    \/ Commit(c)
    \/ Rollback(c)

OrderNext == \E c \in Calls : OrderStep(c)

\* Buys, one after the other, in worlds where several preconditions fail.
OrderSpec == OrderInit /\ [][OrderNext]_vars

\* ------------------------------------------------- POST /achievements/check

\* Number of requests in the runs of the achievement routes.
CheckCalls == 2

Check(userId) == [kind |-> "check", userId |-> userId, merchantId |-> "", item |-> ""]

CheckRequests == {Check("u1"), Check("u404")}

\* The achievements table: two trade-count achievements, with the object
\* their reward_value text denotes (a key that is absent is 0).
CheckAchievements ==
    << [id |-> "first_trade", condition_type |-> "trade_count", condition_value |-> 1,
        reward |-> [gold |-> 0, experience |-> 50]],
       [id |-> "trader", condition_type |-> "trade_count", condition_value |-> 2,
        reward |-> [gold |-> 5000, experience |-> 0]] >>

\* A trade of the first player recorded before the first request.
PastTrade(id) ==
    [id |-> id, seller_id |-> "m1", buyer_id |-> "p1", merchant_id |-> "m1",
     item_name |-> "a", price |-> 7150, trade_type |-> "buy"]

\* A progress row of the first player.
ProgressRow(achievementId, progress, completed, completedAt, claimed) ==
    [player_id |-> "p1", achievement_id |-> achievementId, progress |-> progress,
     is_completed |-> completed, completed_at |-> completedAt, claimed |-> claimed]

\* The progress rows a world may hold for an achievement: none, one short of
\* the target, or one completed at the target (at time 9, before the first
\* request), claimed or not.
ProgressRows(achievement) ==
    {{}}
      \cup {{ProgressRow(achievement.id, p, 0, 0, 0)} :
               p \in 0..(achievement.condition_value - 1)}
      \cup {{ProgressRow(achievement.id, achievement.condition_value, 1, 9, cl)} :
               cl \in {0, 1}}

\* The first player with zero, one or two recorded trades (w[1]) and any of
\* the progress rows that a check may have written when the trades were
\* these or fewer.
CheckWorlds ==
    { [NoTables EXCEPT !.players = TradeWorld.players,
                       !.achievements = CheckAchievements,
                       !.trades = {PastTrade(t) : t \in 11..(10 + w[1])},
                       !.player_achievements = w[2] \cup w[3]] :
        w \in { v \in (0..2) \X ProgressRows(CheckAchievements[1])
                               \X ProgressRows(CheckAchievements[2]) :
                   \A a \in v[2] \cup v[3] : a.progress <= v[1] } }

CheckInit ==
    /\ InitCalls
    /\ db \in CheckWorlds
    /\ world = db
    /\ menu = CheckRequests
    /\ limit = CheckCalls

\* The request arrives and the handler asks for the player.
CheckArrive(c) ==
    /\ pc[c] = "idle"
    /\ c <= limit
    /\ isNextSlot(c)
    /\ \E r \in menu :
          /\ r.kind = "check"
          /\ req' = [req EXCEPT ![c] = r]
    /\ pc' = [pc EXCEPT ![c] = "ckPlayer"]
    /\ UNCHANGED <<activeTrades, db, inTxn, snap, loc, result, issued, world, menu, limit, server>>

\* const player = await db.getPlayerByUserId(req.user.userId); then
\* gameService.checkAchievements(player.id) is called.
CheckGetPlayer(c) ==
    /\ pc[c] = "ckPlayer"
    /\ Issue(c)
    /\ LET player == playerOf(db, req[c].userId) IN
         IF player = {}
         THEN /\ result' = [result EXCEPT ![c] =
                    [NoResult EXCEPT !.status = "failure",
                                     !.error = Error("playerNotFound")]]
              /\ pc' = [pc EXCEPT ![c] = "done"]
              /\ UNCHANGED loc
         ELSE /\ loc' = [loc EXCEPT ![c].player = CHOOSE p \in player : TRUE]
              /\ pc' = [pc EXCEPT ![c] = "caSelectAll"]
              /\ UNCHANGED result
    /\ UNCHANGED <<activeTrades, db, inTxn, snap, req, world, menu, limit, server>>

\* res.json({success: true, data: {newAchievements}})
CheckReturn(c) ==
    /\ pc[c] = "ckReturn"
    /\ result' = [result EXCEPT ![c] =
          [status |-> "success", error |-> NoError, price |-> 0, newMoney |-> 0,
           newTrustPoints |-> 0, newAchievements |-> loc[c].newAchievements]]
    /\ pc' = [pc EXCEPT ![c] = "done"]
    /\ UNCHANGED <<activeTrades, db, inTxn, snap, req, loc, issued, world, menu, limit, server>>

\* A step of a request to the check route.
CheckStep(c) ==
    \/ CheckGetPlayer(c)
    \/ CaSelectAll(c)
    \/ CaSelectCompleted(c)
    \/ CaSelectRow(c)
    \/ CaProgress(c)
    \/ CaWrite(c)
    \/ CheckReturn(c)

CheckNext == \E c \in Calls : CheckArrive(c) \/ CheckStep(c)

\* Requests to POST /achievements/check, their handlers interleaving at each
\* await.
CheckSpec == CheckInit /\ [][CheckNext]_vars

\* A request arrives when no other is in flight.
CheckSoloArrive(c) == Alone(c) /\ CheckArrive(c)

CheckSoloNext == \E c \in Calls : CheckSoloArrive(c) \/ CheckStep(c)

\* Requests to POST /achievements/check that follow one another.
CheckSoloSpec == CheckInit /\ [][CheckSoloNext]_vars

\* ------------------------------------ POST /achievements/:achievementId/claim

\* Number of requests in the runs of the claim route.
ClaimCalls == 2

Claim(userId, achievementId) ==
    [kind |-> "claim", userId |-> userId, merchantId |-> "", item |-> achievementId]

ClaimRequests ==
    {Claim("u1", "first_trade"), Claim("u1", "trader"), Claim("u1", "unknown"),
     Claim("u404", "first_trade")}

\* The first player with two recorded trades, with or without a
\* character_stats row, and any of the progress rows; a completed row of an
\* achievement that is no longer in the achievements table.
ClaimWorlds ==
    { [NoTables EXCEPT !.players = TradeWorld.players,
                       !.achievements = CheckAchievements,
                       !.trades = {PastTrade(11), PastTrade(12)},
                       !.character_stats = stats,
                       !.player_achievements =
                           first \cup second \cup {ProgressRow("unknown", 1, 1, 9, 0)}] :
        stats \in {{}, {defaultStats("p1")}},
        first \in ProgressRows(CheckAchievements[1]),
        second \in ProgressRows(CheckAchievements[2]) }

ClaimInit ==
    /\ InitCalls
    /\ db \in ClaimWorlds
    /\ world = db
    /\ menu = ClaimRequests
    /\ limit = ClaimCalls

ClaimFail(c, kind) ==
    /\ result' = [result EXCEPT ![c] =
                    [NoResult EXCEPT !.status = "failure", !.error = Error(kind)]]
    /\ pc' = [pc EXCEPT ![c] = "done"]

\* The request arrives and the handler asks for the player.
ClaimArrive(c) ==
    /\ pc[c] = "idle"
    /\ c <= limit
    /\ isNextSlot(c)
    /\ \E r \in menu :
          /\ r.kind = "claim"
          /\ req' = [req EXCEPT ![c] = r]
    /\ pc' = [pc EXCEPT ![c] = "clPlayer"]
    /\ UNCHANGED <<activeTrades, db, inTxn, snap, loc, result, issued, world, menu, limit, server>>

\* const player = await db.getPlayerByUserId(req.user.userId)
ClaimGetPlayer(c) ==
    /\ pc[c] = "clPlayer"
    /\ Issue(c)
    /\ LET player == playerOf(db, req[c].userId) IN
         IF player = {}
         THEN /\ ClaimFail(c, "playerNotFound")
              /\ UNCHANGED loc
         ELSE /\ loc' = [loc EXCEPT ![c].player = CHOOSE p \in player : TRUE]
              /\ pc' = [pc EXCEPT ![c] = "clRow"]
              /\ UNCHANGED result
    /\ UNCHANGED <<activeTrades, db, inTxn, snap, req, world, menu, limit, server>>

\* The row of the achievement, completed and not claimed.
claimable(tables, playerId, achievementId) ==
    {a \in tables.player_achievements :
        /\ a.player_id = playerId
        /\ a.achievement_id = achievementId
        /\ a.is_completed = 1
        /\ a.claimed = 0}

\* SELECT * FROM player_achievements WHERE player_id = ? AND achievement_id
\* = ? AND is_completed = 1 AND claimed = 0
ClaimSelectRow(c) ==
    /\ pc[c] = "clRow"
    /\ Issue(c)
    /\ IF claimable(db, loc[c].player.id, req[c].item) = {}
       THEN ClaimFail(c, "notClaimable")
       ELSE /\ pc' = [pc EXCEPT ![c] = "clAchievement"]
            /\ UNCHANGED result
    /\ UNCHANGED <<activeTrades, db, inTxn, snap, req, loc, world, menu, limit, server>>

\* SELECT * FROM achievements WHERE id = ?; rewardData is the object the
\* reward_value text denotes.  BEGIN TRANSACTION is issued next.
ClaimSelectAchievement(c) ==
    /\ pc[c] = "clAchievement"
    /\ Issue(c)
    /\ LET found == {i \in DOMAIN db.achievements : db.achievements[i].id = req[c].item} IN
         IF found = {}
         THEN /\ ClaimFail(c, "achievementNotFound")
              /\ UNCHANGED loc
         ELSE LET achievement == db.achievements[CHOOSE i \in found : TRUE] IN
              /\ loc' = [loc EXCEPT ![c].reward = achievement.reward,
                                    ![c].exp = achievement.reward.experience]
              /\ pc' = [pc EXCEPT ![c] = "begin"]
              /\ UNCHANGED result
    /\ UNCHANGED <<activeTrades, db, inTxn, snap, req, world, menu, limit, server>>

\* UPDATE players SET money = money + ? WHERE id = ?
ClaimGold(c) ==
    /\ pc[c] = "clGold"
    /\ Issue(c)
    /\ db' = [db EXCEPT !.players =
                { IF p.id = loc[c].player.id
                  THEN [p EXCEPT !.money = @ + loc[c].reward.gold]
                  ELSE p : p \in db.players }]
    /\ pc' = [pc EXCEPT ![c] = IF loc[c].reward.experience # 0 THEN "geSelect"
                               ELSE "clMark"]
    /\ UNCHANGED <<activeTrades, inTxn, snap, req, loc, result, world, menu, limit, server>>

\* UPDATE player_achievements SET claimed = 1 WHERE player_id = ? AND
\* achievement_id = ?; COMMIT is issued next.
ClaimMark(c) ==
    /\ pc[c] = "clMark"
    /\ Issue(c)
    /\ db' = [db EXCEPT !.player_achievements =
                { IF a.player_id = loc[c].player.id /\ a.achievement_id = req[c].item
                  THEN [a EXCEPT !.claimed = 1]
                  ELSE a : a \in db.player_achievements }]
    /\ pc' = [pc EXCEPT ![c] = "commit"]
    /\ UNCHANGED <<activeTrades, inTxn, snap, req, loc, result, world, menu, limit, server>>

\* A step of a request to the claim route; its catch block issues ROLLBACK
\* like that of a trade.
ClaimStep(c) ==
    \/ ClaimArrive(c)
    \/ ClaimGetPlayer(c)
    \/ ClaimSelectRow(c)
    \/ ClaimSelectAchievement(c)
    \/ Begin(c)
    \/ ClaimGold(c)
    \/ GeSelect(c)
    \/ GeInsert(c)
    \/ GeSelectAgain(c)
    \/ GeUpdate(c)
    \/ ClaimMark(c)
    \/ Commit(c)
    \/ Rollback(c)

ClaimNext == \E c \in Calls : ClaimStep(c)

\* Requests to the claim route, their handlers interleaving at each await.
ClaimSpec == ClaimInit /\ [][ClaimNext]_vars

\* ------------------------------------- POST /merchants/:merchantId/interact

\* Number of requests in the runs of the interact route.
InteractCalls == 2

\* The cap of friendship points and of reputation.
MaxFriendship == 1000

\* calculateRelationshipStatus
calculateRelationshipStatus(friendshipPoints) ==
    IF friendshipPoints >= 800 THEN "best_friend"
    ELSE IF friendshipPoints >= 500 THEN "close_friend"
    ELSE IF friendshipPoints >= 200 THEN "friend"
    ELSE IF friendshipPoints >= 50 THEN "acquaintance"
    ELSE "stranger"

Interact(userId, merchantId, interactionType) ==
    [kind |-> "interact", userId |-> userId, merchantId |-> merchantId, item |-> "",
     interactionType |-> interactionType]

InteractRequests ==
    {Interact("u1", "m1", t) : t \in {"chat", "compliment", "gift", "wave"}}
       \cup {Interact("u1", "m404", "chat"), Interact("u404", "m1", "chat")}

\* A row of player_merchant_relations.
Relation(playerId, merchantId, friendshipPoints, reputation) ==
    [player_id |-> playerId, merchant_id |-> merchantId,
     friendship_points |-> friendshipPoints, reputation |-> reputation,
     relationship_status |-> calculateRelationshipStatus(friendshipPoints)]

\* The first player and a friendly merchant, with no relation yet or with
\* one just below a tier threshold or at the cap.
InteractWorlds ==
    { [players |-> TradeWorld.players,
       merchants |-> { [id |-> "m1", personality |-> "friendly", mood |-> "neutral"] },
       player_merchant_relations |-> rows] :
        rows \in {{}} \cup {{Relation("p1", "m1", f, 999)} :
                              f \in {0, 45, 195, 498, 795, 995, 1000}} }

InteractInit ==
    /\ InitCalls
    /\ db \in InteractWorlds
    /\ world = db
    /\ menu = InteractRequests
    /\ limit = InteractCalls

InteractFail(c, kind) ==
    /\ result' = [result EXCEPT ![c] =
                    [NoResult EXCEPT !.status = "failure", !.error = Error(kind)]]
    /\ pc' = [pc EXCEPT ![c] = "done"]

\* The request arrives and the handler asks for the player.
InteractArrive(c) ==
    /\ pc[c] = "idle"
    /\ c <= limit
    /\ isNextSlot(c)
    /\ \E r \in menu :
          /\ r.kind = "interact"
          /\ req' = [req EXCEPT ![c] = r]
    /\ pc' = [pc EXCEPT ![c] = "inPlayer"]
    /\ UNCHANGED <<activeTrades, db, inTxn, snap, loc, result, issued, world, menu, limit, server>>

\* const player = await db.getPlayerByUserId(req.user.userId)
InteractGetPlayer(c) ==
    /\ pc[c] = "inPlayer"
    /\ Issue(c)
    /\ LET player == playerOf(db, req[c].userId) IN
         IF player = {}
         THEN /\ InteractFail(c, "playerNotFound")
              /\ UNCHANGED loc
         ELSE /\ loc' = [loc EXCEPT ![c].player = CHOOSE p \in player : TRUE]
              /\ pc' = [pc EXCEPT ![c] = "inMerchant"]
              /\ UNCHANGED result
    /\ UNCHANGED <<activeTrades, db, inTxn, snap, req, world, menu, limit, server>>

\* SELECT * FROM merchants WHERE id = ?
InteractSelectMerchant(c) ==
    /\ pc[c] = "inMerchant"
    /\ Issue(c)
    /\ LET rows == Get({m \in db.merchants : m.id = req[c].merchantId}) IN
         IF rows = {}
         THEN /\ InteractFail(c, "merchantNotFound")
              /\ UNCHANGED loc
         ELSE /\ loc' = [loc EXCEPT ![c].merchant = CHOOSE m \in rows : TRUE]
              /\ pc' = [pc EXCEPT ![c] = "inRelation"]
              /\ UNCHANGED result
    /\ UNCHANGED <<activeTrades, db, inTxn, snap, req, world, menu, limit, server>>

\* The relation of the player and the merchant of call c in `tables`.
relationOf(tables, c) ==
    Get({r \in tables.player_merchant_relations :
            r.player_id = loc[c].player.id /\ r.merchant_id = req[c].merchantId})

\* SELECT * FROM player_merchant_relations WHERE player_id = ? AND
\* merchant_id = ?
InteractSelectRelation(c) ==
    /\ pc[c] = "inRelation"
    /\ Issue(c)
    /\ loc' = [loc EXCEPT ![c].relationship = relationOf(db, c)]
    /\ pc' = [pc EXCEPT ![c] = IF relationOf(db, c) = {} THEN "inCreate" ELSE "inUpdate"]
    /\ UNCHANGED <<activeTrades, db, inTxn, snap, req, result, world, menu, limit, server>>

\* INSERT INTO player_merchant_relations (...) VALUES (?, ?, ?, 0, 0, 0, 0,
\* 'stranger') with the id require('uuid').v4(): in a build that loads the
\* routes as an ES module require is not defined and the statement is never
\* issued; UNIQUE(player_id, merchant_id) refuses a second row.  Either way
\* the catch block answers 500.
InteractCreate(c) ==
    /\ pc[c] = "inCreate"
    /\ Issue(c)
    /\ \/ /\ InteractFail(c, "serverError")
          /\ UNCHANGED db
       \/ /\ relationOf(db, c) = {}
          /\ db' = [db EXCEPT !.player_merchant_relations =
                      @ \cup {Relation(loc[c].player.id, req[c].merchantId, 0, 0)}]
          /\ pc' = [pc EXCEPT ![c] = "inSelectAgain"]
          /\ UNCHANGED result
    /\ UNCHANGED <<activeTrades, inTxn, snap, req, loc, world, menu, limit, server>>

\* The second SELECT after the insert.
InteractSelectAgain(c) ==
    /\ pc[c] = "inSelectAgain"
    /\ Issue(c)
    /\ loc' = [loc EXCEPT ![c].relationship = relationOf(db, c)]
    /\ pc' = [pc EXCEPT ![c] = "inUpdate"]
    /\ UNCHANGED <<activeTrades, db, inTxn, snap, req, result, world, menu, limit, server>>

\* The friendshipGain values of an interaction: chat draws 1..3.
friendshipGains(interactionType, merchant) ==
    CASE interactionType = "chat" -> 1..3
      [] interactionType = "compliment" ->
           IF merchant.personality = "friendly" THEN {5}
           ELSE IF merchant.personality = "grumpy" THEN {2}
           ELSE {3}
      [] interactionType = "gift" -> {8}
      [] OTHER -> {1}

reputationGain(interactionType) == IF interactionType = "gift" THEN 2 ELSE 0

\* moodChange is set by a gift, and by a compliment to a friendly merchant.
changesMood(interactionType, merchant) ==
    \/ interactionType = "gift"
    \/ interactionType = "compliment" /\ merchant.personality = "friendly"

\* Math.min(relationship.friendship_points + friendshipGain, 1000)
newFriendshipPoints(relationship, friendshipGain) ==
    Min(relationship.friendship_points + friendshipGain, MaxFriendship)

\* The gains are added to the relation read earlier, then UPDATE
\* player_merchant_relations SET friendship_points = ?, reputation = ?,
\* relationship_status = ? WHERE player_id = ? AND merchant_id = ?
InteractUpdate(c) ==
    /\ pc[c] = "inUpdate"
    /\ Issue(c)
    /\ \E friendshipGain \in friendshipGains(req[c].interactionType, loc[c].merchant) :
         LET relationship == CHOOSE r \in loc[c].relationship : TRUE
             points == newFriendshipPoints(relationship, friendshipGain)
             newReputation ==
                 Min(relationship.reputation + reputationGain(req[c].interactionType),
                     MaxFriendship)
         IN  db' = [db EXCEPT !.player_merchant_relations =
                      { IF r.player_id = loc[c].player.id
                           /\ r.merchant_id = req[c].merchantId
                        THEN [r EXCEPT !.friendship_points = points,
                                       !.reputation = newReputation,
                                       !.relationship_status =
                                           calculateRelationshipStatus(points)]
                        ELSE r : r \in db.player_merchant_relations }]
    /\ IF changesMood(req[c].interactionType, loc[c].merchant)
       THEN /\ pc' = [pc EXCEPT ![c] = "inMood"]
            /\ UNCHANGED result
       ELSE /\ pc' = [pc EXCEPT ![c] = "done"]
            /\ result' = [result EXCEPT ![c] = [NoResult EXCEPT !.status = "success"]]
    /\ UNCHANGED <<activeTrades, inTxn, snap, req, loc, world, menu, limit, server>>

\* UPDATE merchants SET mood = ? WHERE id = ?, and the response.
InteractMood(c) ==
    /\ pc[c] = "inMood"
    /\ Issue(c)
    /\ db' = [db EXCEPT !.merchants =
                { IF m.id = req[c].merchantId THEN [m EXCEPT !.mood = "happy"]
                  ELSE m : m \in db.merchants }]
    /\ pc' = [pc EXCEPT ![c] = "done"]
    /\ result' = [result EXCEPT ![c] = [NoResult EXCEPT !.status = "success"]]
    /\ UNCHANGED <<activeTrades, inTxn, snap, req, loc, world, menu, limit, server>>

InteractStep(c) ==
    \/ InteractGetPlayer(c)
    \/ InteractSelectMerchant(c)
    \/ InteractSelectRelation(c)
    \/ InteractCreate(c)
    \/ InteractSelectAgain(c)
    \/ InteractUpdate(c)
    \/ InteractMood(c)

InteractNext == \E c \in Calls : InteractArrive(c) \/ InteractStep(c)

\* Requests to the interact route, their handlers interleaving at each await.
InteractSpec == InteractInit /\ [][InteractNext]_vars

\* ---------------------------------------------------------- stat allocation

\* A body without the stats object.
NoBody == [strength |-> -1, intelligence |-> -1, charisma |-> -1, luck |-> -1]

\* The stats objects of the requests. A field of 0 is a field the body leaves
\* out: `strength || currentStats.strength' treats both alike.
StatsBodies ==
    [strength : {0, 9, 11, 12}, intelligence : {0, 9, 12}, charisma : {0},
     luck : {0, 11}]

StatsRequest(userId, body) ==
    [kind |-> "stats", userId |-> userId, merchantId |-> "", item |-> "",
     stats |-> body]

StatsRequests ==
    {StatsRequest("u1", b) : b \in StatsBodies}
       \cup {StatsRequest("u1", NoBody),
             StatsRequest("u404", [strength |-> 11, intelligence |-> 0,
                                   charisma |-> 0, luck |-> 0])}

\* A row of character_stats with its four stats, at their column defaults.
StatsRow(playerId, statPoints) ==
    [player_id |-> playerId, level |-> 1, experience |-> 0,
     stat_points |-> statPoints, skill_points |-> 0,
     strength |-> 10, intelligence |-> 10, charisma |-> 10, luck |-> 10]

\* The player with no progress row, or with one holding 0, 2 or 3 unspent
\* stat points.
StatsWorlds ==
    {[NoTables EXCEPT !.players = TradeWorld.players, !.character_stats = rows] :
        rows \in {{}} \cup {{StatsRow("p1", n)} : n \in {0, 2, 3}}}

StatsInit ==
    /\ InitCalls
    /\ db \in StatsWorlds
    /\ world = db
    /\ menu = StatsRequests
    /\ limit = StatsCalls

StatsFail(c, kind) ==
    /\ result' = [result EXCEPT ![c] =
                    [NoResult EXCEPT !.status = "failure", !.error = Error(kind)]]
    /\ pc' = [pc EXCEPT ![c] = "done"]

\* The request arrives: without a stats object it is answered 400, otherwise
\* the handler asks for the player.
StatsArrive(c) ==
    /\ pc[c] = "idle"
    /\ c <= limit
    /\ isNextSlot(c)
    /\ \E r \in menu :
          /\ r.kind = "stats"
          /\ req' = [req EXCEPT ![c] = r]
          /\ IF r.stats = NoBody
             THEN StatsFail(c, "statsRequired")
             ELSE /\ pc' = [pc EXCEPT ![c] = "stGetPlayer"]
                  /\ UNCHANGED result
    /\ UNCHANGED <<activeTrades, db, inTxn, snap, loc, issued, world, menu, limit, server>>

\* const player = await db.getPlayerByUserId(req.user.userId)
StatsGetPlayer(c) ==
    /\ pc[c] = "stGetPlayer"
    /\ LET player == Get({p \in db.players : p.user_id = req[c].userId}) IN
         IF player = {}
         THEN /\ StatsFail(c, "playerNotFound")
              /\ UNCHANGED loc
         ELSE /\ loc' = [loc EXCEPT ![c].player = CHOOSE p \in player : TRUE]
              /\ pc' = [pc EXCEPT ![c] = "stSelect"]
              /\ UNCHANGED result
    /\ UNCHANGED <<activeTrades, db, inTxn, snap, req, issued, world, menu, limit, server>>

\* const currentStats = await db.get(SELECT * FROM character_stats ...)
StatsSelect(c) ==
    /\ pc[c] = "stSelect"
    /\ LET currentStats ==
             Get({s \in db.character_stats : s.player_id = loc[c].player.id}) IN
         IF currentStats = {}
         THEN /\ StatsFail(c, "statsNotFound")
              /\ UNCHANGED loc
         ELSE /\ loc' = [loc EXCEPT ![c].stats = CHOOSE s \in currentStats : TRUE]
              /\ pc' = [pc EXCEPT ![c] = "stUpdate"]
              /\ UNCHANGED result
    /\ UNCHANGED <<activeTrades, db, inTxn, snap, req, issued, world, menu, limit, server>>

\* requested || current
orCurrent(requested, current) == IF requested = 0 THEN current ELSE requested

\* const usedPoints = newTotal - currentTotal
usedPoints(stats, currentStats) ==
    LET currentTotal == currentStats.strength + currentStats.intelligence
                          + currentStats.charisma + currentStats.luck
        newTotal == orCurrent(stats.strength, currentStats.strength)
                      + orCurrent(stats.intelligence, currentStats.intelligence)
                      + orCurrent(stats.charisma, currentStats.charisma)
                      + orCurrent(stats.luck, currentStats.luck)
    IN newTotal - currentTotal

\* if (usedPoints < 0): the request is taken to decrease a stat.
decreasesStat(stats, currentStats) == usedPoints(stats, currentStats) < 0

\* The two checks on the stats read before, then the UPDATE: the four stats
\* are set to the requested values, stat_points = stat_points - usedPoints is
\* computed by the statement on the row as it is stored now.
StatsUpdate(c) ==
    /\ pc[c] = "stUpdate"
    /\ LET stats == req[c].stats
           currentStats == loc[c].stats
           used == usedPoints(stats, currentStats)
       IN IF used > currentStats.stat_points
          THEN /\ StatsFail(c, "notEnoughStatPoints")
               /\ UNCHANGED db
          ELSE IF decreasesStat(stats, currentStats)
          THEN /\ StatsFail(c, "statDecrease")
               /\ UNCHANGED db
          ELSE /\ db' = [db EXCEPT !.character_stats =
                          { IF s.player_id = loc[c].player.id
                            THEN [s EXCEPT
                                    !.strength = orCurrent(stats.strength,
                                                           currentStats.strength),
                                    !.intelligence = orCurrent(stats.intelligence,
                                                               currentStats.intelligence),
                                    !.charisma = orCurrent(stats.charisma,
                                                           currentStats.charisma),
                                    !.luck = orCurrent(stats.luck, currentStats.luck),
                                    !.stat_points = s.stat_points - used]
                            ELSE s : s \in db.character_stats }]
               /\ pc' = [pc EXCEPT ![c] = "stReturn"]
               /\ UNCHANGED result
    /\ UNCHANGED <<activeTrades, inTxn, snap, req, loc, issued, world, menu, limit, server>>

\* const updatedStats = await db.get(SELECT * FROM character_stats ...), and
\* the response.
StatsReturn(c) ==
    /\ pc[c] = "stReturn"
    /\ LET updatedStats ==
             Get({s \in db.character_stats : s.player_id = loc[c].player.id}) IN
         IF updatedStats = {}
         THEN /\ StatsFail(c, "serverError")
              /\ UNCHANGED loc
         ELSE /\ loc' = [loc EXCEPT ![c].stats = CHOOSE s \in updatedStats : TRUE]
              /\ result' = [result EXCEPT ![c] = [NoResult EXCEPT !.status = "success"]]
              /\ pc' = [pc EXCEPT ![c] = "done"]
    /\ UNCHANGED <<activeTrades, db, inTxn, snap, req, issued, world, menu, limit, server>>

StatsNext ==
    \E c \in Calls :
       \/ StatsArrive(c)
       \/ StatsGetPlayer(c)
       \/ StatsSelect(c)
       \/ StatsUpdate(c)
       \/ StatsReturn(c)

\* Requests to PUT /character/stats, their handlers interleaving at each await.
StatsSpec == StatsInit /\ [][StatsNext]_vars

\* ------------------------------------------------------------------- claims

InFlight(c) == pc[c] \notin {"idle", "done"}

Returned(c) == pc[c] = "done"

Succeeded(c) == pc[c] = "done" /\ result[c].status = "success"

\* No call is in flight.
Quiet == \A c \in Calls : ~InFlight(c)

RECURSIVE SumPrices(_)
SumPrices(S) ==
    IF S = {} THEN 0
    ELSE LET c == CHOOSE x \in S : TRUE IN result[c].price + SumPrices(S \ {c})

SuccessfulBuys == {c \in Calls : Succeeded(c) /\ req[c].kind = "buy"}

SuccessfulSells == {c \in Calls : Succeeded(c) /\ req[c].kind = "sell"}

\* The stock of line `name` of merchant `merchantId` in `tables`.
StockOf(tables, merchantId, name) ==
    LET m == CHOOSE x \in tables.merchants : x.id = merchantId
    IN  m.inventory[findItem(m.inventory, name)].stock

MoneyOf(tables, playerId) == (CHOOSE p \in tables.players : p.id = playerId).money

\* C1: a buy that returned success has its inventory row (at the quoted
\* price) and its trade record persisted, a buy that returned without
\* success has neither; and once no call is in flight (sells aside) each
\* player's persisted money is the initial money less the quoted prices of
\* the player's successful buys, and each stock line is down by the number
\* of successful buys of that line.
C1_BuyAtomicity ==
    /\ \A c \in Calls :
          (req[c].kind = "buy" /\ Returned(c)) =>
             LET rowIn == \E i \in Persisted.inventory :
                             /\ i.id = inventoryIdOf(c)
                             /\ Succeeded(c) => i.current_price = result[c].price
                 tradeIn == \E t \in Persisted.trades : t.id = c
             IN  IF Succeeded(c) THEN rowIn /\ tradeIn ELSE ~rowIn /\ ~tradeIn
    /\ (Quiet /\ \A c \in Calls : req[c].kind # "sell") =>
          /\ \A p \in world.players :
                MoneyOf(Persisted, p.id) =
                   p.money - SumPrices({c \in SuccessfulBuys : req[c].userId = p.user_id})
          /\ \A m \in world.merchants : \A i \in 1..Len(m.inventory) :
                StockOf(Persisted, m.id, m.inventory[i].name) =
                   m.inventory[i].stock
                     - Cardinality({c \in SuccessfulBuys :
                                       /\ req[c].merchantId = m.id
                                       /\ req[c].item = m.inventory[i].name})

\* C7: the money of every player is non-negative.
C7_MoneyNonNegative == \A p \in db.players : p.money >= 0

\* C8: no player owns more inventory rows than max_inventory_size.
C8_InventoryCapacity ==
    \A p \in db.players :
        Cardinality({i \in db.inventory : i.player_id = p.id}) <= p.max_inventory_size

\* C9: once no call is in flight, every stock line is down from its initial
\* count by exactly the number of successful buys of that line.
C9_StockConservation ==
    Quiet =>
       \A m \in world.merchants : \A i \in 1..Len(m.inventory) :
          m.inventory[i].stock - StockOf(Persisted, m.id, m.inventory[i].name) =
             Cardinality({c \in SuccessfulBuys :
                             /\ req[c].merchantId = m.id
                             /\ req[c].item = m.inventory[i].name})

PreconditionKinds ==
    {"playerNotFound", "merchantNotFound", "licenseRequired", "itemNotFound",
     "outOfStock", "inventoryFull", "insufficientFunds", "tooFar"}

\* The errors of a storage statement; "rollback" is what a call surfaces
\* when its ROLLBACK fails.
StorageErrorKinds == {"begin", "commit", "rollback", "uniqueConstraint"}

DuplicateKinds == {"duplicateTrade", "duplicateSale"}

\* C5: the ROLLBACK of a call that failed a precondition leaves every table
\* as it was: it undoes nothing another trade wrote.
C5_PreconditionFailureChangesNothing ==
    [][\A c \in Calls :
          (pc[c] = "rollback" /\ pc'[c] = "done" /\ loc[c].err.kind \in PreconditionKinds)
             => db' = db]_vars

\* C6: a call that ended on a failed storage statement returned a failure
\* (it did not throw) and none of its rows is persisted.
C6_InternalErrorAbortsCleanly ==
    \A c \in Calls :
        (Returned(c) /\ result[c].error.kind \in StorageErrorKinds) =>
            /\ result[c].status = "failure"
            /\ ~\E t \in Persisted.trades : t.id = c
            /\ ~\E i \in Persisted.inventory : i.id = inventoryIdOf(c)

\* The buys of the license gate's case: player and merchant exist and the
\* merchant's required_license is above the player's current_license.
LicenseGated(c) ==
    /\ req[c].kind = "buy"
    /\ \E p \in world.players, m \in world.merchants :
          /\ p.user_id = req[c].userId
          /\ m.id = req[c].merchantId
          /\ m.required_license > p.current_license

RequiredLicense(c) ==
    (CHOOSE m \in world.merchants : m.id = req[c].merchantId).required_license

\* C10: a buy past the guard, from a merchant whose required_license is
\* above the player's current_license, returns the license failure naming
\* the required tier, and no step of it changes a table.
C10_LicenseGate ==
    /\ [](\A c \in Calls :
            (Returned(c) /\ LicenseGated(c) /\ issued[c]) =>
                /\ result[c].status = "failure"
                /\ result[c].error = [kind |-> "licenseRequired",
                                      arg |-> RequiredLicense(c)])
    /\ [][\A c \in Calls :
            (LicenseGated(c) /\ pc'[c] # pc[c]) => db' = db]_vars

\* The keys of the calls in flight.
HeldKeys == {tradeKey(req[c]) : c \in {d \in Calls : InFlight(d)}}

\* C2: no two calls in flight have the same key; a call that arrives while
\* its key is held returns the duplicate failure in that very step, having
\* issued no statement and changed neither the tables, the transaction nor
\* activeTrades; a call whose key is free takes it.
C2_TradeKeyMutex ==
    /\ [](\A c1, c2 \in Calls :
            (c1 # c2 /\ InFlight(c1) /\ InFlight(c2)) =>
                tradeKey(req[c1]) # tradeKey(req[c2]))
    /\ [](\A c \in Calls :
            (Returned(c) /\ result[c].error.kind \in DuplicateKinds) => ~issued[c])
    /\ [][\A c \in Calls :
            (pc[c] = "idle" /\ pc'[c] # "idle") =>
                IF tradeKey(req'[c]) \in HeldKeys
                THEN /\ pc'[c] = "done"
                     /\ result'[c].status = "failure"
                     /\ result'[c].error.kind \in DuplicateKinds
                     /\ ~issued'[c]
                     /\ activeTrades' = activeTrades
                     /\ db' = db /\ inTxn' = inTxn /\ snap' = snap
                ELSE /\ pc'[c] = "begin"
                     /\ tradeKey(req'[c]) \in activeTrades']_vars

\* C2's case: a call was rejected as a duplicate while the holder of its key
\* is still in flight and still holds the key.
C2_Witness ==
    \E c, d \in Calls :
        /\ Returned(c)
        /\ result[c].error.kind \in DuplicateKinds
        /\ InFlight(d)
        /\ issued[d]
        /\ req[d] = req[c]
        /\ tradeKey(req[d]) \in activeTrades

\* C3: activeTrades holds exactly the keys of the calls in flight (so it is
\* empty once none is), and every call in flight eventually returns with its
\* key released, whichever way it ends.
C3_GuaranteedRelease ==
    /\ [](activeTrades = HeldKeys)
    /\ \A c \in Calls :
          InFlight(c) ~> (Returned(c) /\ activeTrades = HeldKeys)

\* C3's case: a call whose ROLLBACK itself failed has returned (it threw),
\* the call whose failed BEGIN led to that has returned its failure, and no
\* key is left.
C3_Witness ==
    /\ Quiet
    /\ activeTrades = {}
    /\ \E c \in Calls : Returned(c) /\ result[c].status = "thrown"
    /\ \E c \in Calls : Returned(c) /\ result[c].error.kind = "begin"

\* C4: two buys with the same (user, merchant, item) of a line that had one
\* piece do not both return success.
C4_AtMostOneSuccess ==
    \A c1, c2 \in Calls :
        ( /\ c1 # c2
          /\ req[c1].kind = "buy"
          /\ req[c1] = req[c2]
          /\ StockOf(world, req[c1].merchantId, req[c1].item) = 1 )
        => ~(Succeeded(c1) /\ Succeeded(c2))

\* C4's case: the first buy succeeded and released its key, the second ran
\* after it and found the line out of stock.
C4_Witness ==
    \E c1, c2 \in Calls :
        /\ req[c1] = req[c2]
        /\ Succeeded(c1)
        /\ Returned(c2)
        /\ result[c2].error.kind = "outOfStock"

\* ------------------------------------------------- claims on a single trade

\* The player and the merchant of request r are in `tables`, both have a
\* recorded location, and they are at most 0.5 km apart.
WithinReach(tables, r) ==
    \E p \in tables.players, m \in tables.merchants :
        /\ p.user_id = r.userId
        /\ m.id = r.merchantId
        /\ p.location_lat # NoCoord /\ p.location_lng # NoCoord
        /\ m.location_lat # NoCoord /\ m.location_lng # NoCoord
        /\ Abs(m.location_lat - p.location_lat) + Abs(m.location_lng - p.location_lng)
              <= MaxTradeDistance

\* The preconditions of request r other than the distance hold in `tables`.
OtherPreconditionsHold(tables, r) ==
    \E p \in tables.players, m \in tables.merchants :
        /\ p.user_id = r.userId
        /\ m.id = r.merchantId
        /\ IF r.kind = "buy"
           THEN /\ m.required_license <= p.current_license
                /\ \E i \in 1..Len(m.inventory) :
                      /\ m.inventory[i].name = r.item
                      /\ m.inventory[i].stock > 0
                      /\ \A hour \in QuoteHours, rnd \in QuoteRandoms :
                            p.money >= calculateCurrentPrice(m.inventory[i], m.district,
                                                             hour, rnd)
                /\ Cardinality({i \in tables.inventory : i.player_id = p.id})
                      < p.max_inventory_size
           ELSE \E i \in tables.inventory : i.id = r.item /\ i.player_id = p.id

\* C11: a trade that runs alone and whose other preconditions hold returns
\* the too-far failure, the tables being as before the call, when player and
\* merchant are more than 0.5 km apart or the player has no recorded
\* location; and no trade within 0.5 km (0.5 included) returns the too-far
\* failure: with its other preconditions holding it returns success.
C11_DistanceGate ==
    [][\A c \in Calls :
          (pc[c] # "done" /\ pc'[c] = "done") =>
             /\ (OtherPreconditionsHold(snap, req[c]) /\ ~WithinReach(snap, req[c])) =>
                   /\ result'[c].status = "failure"
                   /\ result'[c].error.kind = "tooFar"
                   /\ db' = snap
             /\ WithinReach(world, req[c]) => result'[c].error.kind # "tooFar"
             /\ (OtherPreconditionsHold(snap, req[c]) /\ WithinReach(snap, req[c])) =>
                   result'[c].status = "success"]_vars

\* C11's case: with the player 0.6 km from the merchant, a buy and a sell
\* whose other preconditions hold have both returned the too-far failure and
\* the tables are as they were.
C11_Witness ==
    /\ \E p \in world.players : p.user_id = "u1" /\ p.location_lat = 6
    /\ \E c, d \in Calls :
          /\ Returned(c) /\ req[c] = Buy("u1", "m1", "a")
          /\ Returned(d) /\ req[d] = Sell("u1", "inv0", "m1")
          /\ result[c].error.kind = "tooFar"
          /\ result[d].error.kind = "tooFar"
    /\ ~inTxn
    /\ db = world

\* The inventory row request r names exists in `tables` and belongs to the
\* player of the caller.
OwnsItem(tables, r) ==
    \E p \in tables.players, i \in tables.inventory :
        p.user_id = r.userId /\ i.id = r.item /\ i.player_id = p.id

\* C12: a sell that runs alone returns success only if the row it names
\* existed and belonged to the caller's player; when there is no such row it
\* returns item-not-found with the tables as before the call (no row
\* deleted, no money credited); and a row leaves the inventory only in the
\* DELETE step of a sell whose caller owns it.
C12_SellOwnership ==
    /\ [][\A c \in Calls :
            (pc[c] # "done" /\ pc'[c] = "done" /\ req[c].kind = "sell") =>
               /\ result'[c].status = "success" => OwnsItem(snap, req[c])
               /\ ~OwnsItem(snap, req[c]) =>
                     /\ result'[c].status = "failure"
                     /\ result'[c].error.kind = "itemNotFound"
                     /\ db' = snap]_vars
    /\ [][\A i \in db.inventory :
            i \notin db'.inventory =>
               \E c \in Calls :
                  /\ pc[c] = "sellDelete" /\ pc'[c] = "sellTrade"
                  /\ req[c].kind = "sell" /\ req[c].item = i.id
                  /\ \E p \in db.players : p.user_id = req[c].userId /\ p.id = i.player_id]_vars

\* C12's case: the first player's sell of the second player's row returned
\* item-not-found and left the row, and the owner's sell of it succeeded.
C12_Witness ==
    \E c, d \in Calls :
        /\ c < d
        /\ Returned(c) /\ req[c] = Sell("u1", "inv9", "m1")
        /\ result[c].error.kind = "itemNotFound"
        /\ Succeeded(d) /\ req[d] = Sell("u2", "inv9", "m1")
        /\ ~\E i \in db.inventory : i.id = "inv9"

\* C13: a sell that returned success has its 'sell' trade record persisted
\* and its inventory row gone, a sell that returned without success has no
\* trade record; once no call is in flight, an initial inventory row is gone
\* exactly if a successful sell sold it; and then (buys aside) each player's
\* persisted money is the initial money plus the prices of the player's
\* successful sells, the trust points are up by 2 for each.
C13_SellAtomicity ==
    /\ \A c \in Calls :
          (req[c].kind = "sell" /\ Returned(c)) =>
             LET tradeIn == \E t \in Persisted.trades : t.id = c /\ t.trade_type = "sell"
                 rowIn == \E i \in Persisted.inventory : i.id = req[c].item
             IN  IF Succeeded(c) THEN tradeIn /\ ~rowIn ELSE ~tradeIn
    /\ Quiet =>
          \A i \in world.inventory :
             (~\E j \in Persisted.inventory : j.id = i.id)
                <=> (\E c \in SuccessfulSells : req[c].item = i.id)
    /\ (Quiet /\ \A c \in Calls : req[c].kind # "buy") =>
          \A p \in world.players :
             LET mine == {c \in SuccessfulSells : req[c].userId = p.user_id}
                 now == CHOOSE q \in Persisted.players : q.id = p.id
             IN  /\ now.money = p.money + SumPrices(mine)
                 /\ now.trust_points = p.trust_points + 2 * Cardinality(mine)

\* ---------------------------------------------------- claims on the prices

\* C14: the sell price of a row with recorded price p >= 0 is
\* floor(p * min(rate + bonus, 0.95)): it is the integer s with
\* s <= p * e < s + 1 for the effective rate e = min(rate + bonus, 0.95);
\* it is at most 0.95 * p and so at most p.
C14_SellPriceCapped ==
    \A c \in Calls :
        (pc[c] = "done" /\ req[c].kind \in {"quote", "sellQuote"}) =>
            LET p == loc[c].item.current_price
                s == result[c].price
                e == Min(req[c].rate + districtBonus(req[c].district), 95)
            IN  /\ 100 * s <= p * e
                /\ p * e < 100 * (s + 1)
                /\ 100 * s <= 95 * p
                /\ s <= p

\* C14's case: rate 0.90 in the district with bonus 0.10, where rate + bonus
\* is above the cap: a row recorded at 6000 sells at 5700.
C14_Witness ==
    \E c \in Calls :
        /\ pc[c] = "done"
        /\ req[c].kind = "sellQuote"
        /\ req[c].rate = 90
        /\ req[c].district = "Gangnam"
        /\ loc[c].item.current_price = 6000
        /\ result[c].price = 5700

\* C15: an item bought at the quoted price p and sold back at once sells
\* for strictly less than p.
C15_RoundTripLoses ==
    \A c \in Calls :
        (pc[c] = "done" /\ req[c].kind = "quote") => result[c].price < loc[c].price

\* The districts and grades the tables of calculateCurrentPrice list.
ListedDistricts ==
    {"Gangnam", "Seocho", "Songpa", "Jung", "Jongno", "Yongsan", "Mapo",
     "Seongdong", "Gwangjin", "Dongdaemun", "Jungnang"}

KnownGrades == {"common", "uncommon", "rare", "epic", "legendary"}

C16_TradeKeyIdentity ==
    [][\A c \in Calls :
          (pc[c] = "idle" /\ pc'[c] # "idle") =>
             ( (pc'[c] = "done" /\ result'[c].error.kind \in DuplicateKinds)
                 <=> \E d \in Calls \ {c} : InFlight(d) /\ req[d] = req'[c] )]_vars

\* ------------------------------------------------ claims on the experience

\* The row of level_requirements for `level` (a set: empty when there is none).
Requirement(level) == {r \in LevelRows : r.level = level}

\* C17: a grant that takes the experience to or past the thresholds of the
\* next two levels (and not past that of a third) is stored by one UPDATE
\* that raises the level by exactly 2, adds both levels' stat and skill
\* point rewards and sets the experience to the old experience plus the
\* grant.
C17_MultiLevelGrant ==
    [][\A c \in Calls :
          (pc[c] = "geUpdate" /\ pc'[c] # "geUpdate") =>
             \A s \in db.character_stats :
                s.player_id = loc[c].player.id =>
                   LET newExp == s.experience + loc[c].exp
                       r1 == Requirement(s.level + 1)
                       r2 == Requirement(s.level + 2)
                       r3 == Requirement(s.level + 3)
                       crossesTwo ==
                           /\ r1 # {} /\ r2 # {}
                           /\ \A r \in r1 \cup r2 : r.required_exp <= newExp
                           /\ \A r \in r3 : newExp < r.required_exp
                   IN  crossesTwo =>
                          \E t \in db'.character_stats :
                             /\ t.player_id = s.player_id
                             /\ t.level = s.level + 2
                             /\ t.experience = newExp
                             /\ t.stat_points = s.stat_points
                                  + (CHOOSE r \in r1 : TRUE).stat_points_reward
                                  + (CHOOSE r \in r2 : TRUE).stat_points_reward
                             /\ t.skill_points = s.skill_points
                                  + (CHOOSE r \in r1 : TRUE).skill_points_reward
                                  + (CHOOSE r \in r2 : TRUE).skill_points_reward]_vars

\* C17's case: the player had no progress row (level 1, experience 0 once
\* created) and a buy granted 260: the row is at level 3 with experience 260,
\* 4 stat points and 2 skill points.
C17_Witness ==
    /\ world.character_stats = {}
    /\ \E c \in Calls : Succeeded(c) /\ req[c] = Buy("u1", "m1", "x") /\ result[c].price = 255255
    /\ db.character_stats =
          { [defaultStats("p1") EXCEPT !.level = 3, !.experience = 260,
                                       !.stat_points = 4, !.skill_points = 2] }

\* The stored progress of a player in `tables`: experience and level, 0 when
\* there is no row.
StoredExperience(tables, playerId) ==
    LET rows == {s \in tables.character_stats : s.player_id = playerId} IN
      IF rows = {} THEN 0 ELSE (CHOOSE s \in rows : TRUE).experience

StoredLevel(tables, playerId) ==
    LET rows == {s \in tables.character_stats : s.player_id = playerId} IN
      IF rows = {} THEN 0 ELSE (CHOOSE s \in rows : TRUE).level

\* C18: no step of giveExperience lowers the stored experience or the
\* stored level of a player, and its UPDATE of a player's row leaves the
\* stored experience at what it was plus the amount granted (so that the
\* final experience is the initial one plus all grants).
C18_ExperienceMonotonic ==
    [][\A c \in Calls :
          (pc[c] \in {"geSelect", "geInsert", "geSelectAgain", "geUpdate"}
             /\ pc'[c] # pc[c]) =>
             \A p \in db.players :
                /\ StoredExperience(db', p.id) >= StoredExperience(db, p.id)
                /\ StoredLevel(db', p.id) >= StoredLevel(db, p.id)
                /\ ( /\ pc[c] = "geUpdate"
                     /\ p.id = loc[c].player.id
                     /\ \E s \in db.character_stats : s.player_id = p.id ) =>
                      StoredExperience(db', p.id) = StoredExperience(db, p.id) + loc[c].exp]_vars

\* C19: the INSERT of a giveExperience call that found no progress row
\* completes without error, whatever other calls did in between, and leaves
\* exactly one row for the player.
C19_LazyCreationRaceTolerant ==
    [][\A c \in Calls :
          (pc[c] = "geInsert" /\ pc'[c] # pc[c]) =>
             /\ pc'[c] = "geSelectAgain"
             /\ Cardinality({s \in db'.character_stats :
                                s.player_id = loc[c].player.id}) = 1]_vars

\* The row of a player's stats as stored.
StoredStats(tables, playerId) ==
    CHOOSE s \in tables.character_stats : s.player_id = playerId

StatNames == {"strength", "intelligence", "charisma", "luck"}

\* What a request asks a stat to become: a field left out asks for no change.
Requested(body, row, f) == IF body[f] = 0 THEN row[f] ELSE body[f]

Raise(body, row, f) ==
    IF Requested(body, row, f) > row[f] THEN Requested(body, row, f) - row[f] ELSE 0

\* The total of the requested point increases.
TotalIncrease(body, row) ==
    Raise(body, row, "strength") + Raise(body, row, "intelligence")
      + Raise(body, row, "charisma") + Raise(body, row, "luck")

LowersSomeStat(body, row) == \E f \in StatNames : Requested(body, row, f) < row[f]

\* C20: stat allocation. The step that decides a request rejects it when the
\* total of its requested increases exceeds the unspent stat points, and
\* rejects it when any single stat is requested below its current value, even
\* if another stat is raised by as much or more; a rejected request leaves the
\* tables as they are, and an accepted one reduces the unspent stat points by
\* exactly the total increase.
C20_StatAllocation ==
    [][\A c \in Calls :
          (pc[c] = "stUpdate" /\ pc'[c] # pc[c]) =>
             LET row == StoredStats(db, loc[c].player.id)
                 body == req[c].stats
                 rejected == pc'[c] = "done" /\ result'[c].status = "failure"
             IN /\ TotalIncrease(body, row) > row.stat_points => rejected
                /\ LowersSomeStat(body, row) => rejected
                /\ rejected => db' = db
                /\ ~rejected =>
                      StoredStats(db', loc[c].player.id).stat_points
                         = row.stat_points - TotalIncrease(body, row)]_vars

\* A request to the check route that returned its list.
Checked(c) == req[c].kind = "check" /\ pc[c] = "done" /\ result[c].status = "success"

\* C21: achievement recomputation is idempotent. While a check runs for a
\* player after an earlier check for the same player returned, with nothing
\* in between, no step changes a progress row, and the check returns an
\* empty list of newly completed achievements.
C21_CheckIdempotent ==
    [][\A c \in Calls :
          ( /\ req[c].kind = "check"
            /\ pc[c] \notin {"idle", "done"}
            /\ \E d \in Calls \ {c} : Checked(d) /\ req[d].userId = req[c].userId ) =>
             /\ db'.player_achievements = db.player_achievements
             /\ pc'[c] = "done" =>
                   /\ result'[c].status = "success"
                   /\ result'[c].newAchievements = {}]_vars

\* C21 witness: two checks of one player returned, the first reported a
\* newly completed achievement and wrote progress rows, the second reported
\* none.
C21_Witness ==
    /\ Checked(1) /\ Checked(2)
    /\ req[1].userId = req[2].userId
    /\ result[1].newAchievements # {}
    /\ db.player_achievements # world.player_achievements
    /\ result[2].newAchievements = {}

\* C22: each achievement is reported as newly completed at most once: the
\* lists two checks of one player returned have no achievement in common.
C22_ReportedAtMostOnce ==
    \A c, d \in Calls :
       (c # d /\ Checked(c) /\ Checked(d) /\ req[c].userId = req[d].userId) =>
          result[c].newAchievements \cap result[d].newAchievements = {}

\* C23: completion is permanent. No step takes a completed progress row back
\* to not completed, removes it, or changes its completed_at.
C23_CompletionPermanent ==
    [][\A a \in db.player_achievements :
          a.is_completed = 1 =>
             \E b \in db'.player_achievements :
                /\ b.player_id = a.player_id
                /\ b.achievement_id = a.achievement_id
                /\ b.is_completed = 1
                /\ b.completed_at = a.completed_at]_vars

\* The reward of achievement `id`, no reward when the table has no such row.
RewardOf(tables, id) ==
    LET found == {i \in DOMAIN tables.achievements : tables.achievements[i].id = id} IN
      IF found = {} THEN [gold |-> 0, experience |-> 0]
      ELSE tables.achievements[CHOOSE i \in found : TRUE].reward

\* The achievements whose progress row of the player is marked claimed in
\* `tables`.
ClaimedIds(tables, playerId) ==
    {a.achievement_id : a \in {x \in tables.player_achievements :
                                  x.player_id = playerId /\ x.claimed = 1}}

RECURSIVE SumGold(_, _)
SumGold(tables, ids) ==
    IF ids = {} THEN 0
    ELSE LET id == CHOOSE x \in ids : TRUE IN
           RewardOf(tables, id).gold + SumGold(tables, ids \ {id})

RECURSIVE SumRewardExperience(_, _)
SumRewardExperience(tables, ids) ==
    IF ids = {} THEN 0
    ELSE LET id == CHOOSE x \in ids : TRUE IN
           RewardOf(tables, id).experience + SumRewardExperience(tables, ids \ {id})

\* A claim request that was answered with success.
Claimed(c) == req[c].kind = "claim" /\ Succeeded(c)

\* C24: reward claiming is at-most-once. A claim succeeds only for a row that
\* was completed and not claimed before the first request, no two claims of
\* one (player, achievement) both succeed, and the player's stored money and
\* experience never exceed what they were plus one reward per claimable
\* achievement.
C24_ClaimAtMostOnce ==
    /\ \A c \in Calls :
          Claimed(c) =>
             \E p \in world.players :
                p.user_id = req[c].userId /\ claimable(world, p.id, req[c].item) # {}
    /\ \A c, d \in Calls :
          (c # d /\ Claimed(c) /\ Claimed(d)) =>
             ~(req[c].userId = req[d].userId /\ req[c].item = req[d].item)
    /\ \A p \in world.players :
          LET ids == {a.achievement_id : a \in {x \in world.player_achievements :
                         x.player_id = p.id /\ x.is_completed = 1 /\ x.claimed = 0}}
          IN /\ MoneyOf(Persisted, p.id) <= p.money + SumGold(world, ids)
             /\ StoredExperience(Persisted, p.id)
                   <= StoredExperience(world, p.id) + SumRewardExperience(world, ids)

\* C25: reward claiming is atomic. In what is durably stored, the rows
\* claimed since the first request are exactly those whose reward the money
\* and the experience of the player hold; and a claim that is rejected before
\* its BEGIN changes neither the tables nor the open transaction.
C25_ClaimAtomic ==
    [][/\ \A p \in world.players :
            LET ids == ClaimedIds(Persisted', p.id) \ ClaimedIds(world, p.id) IN
              /\ MoneyOf(Persisted', p.id) = p.money + SumGold(world, ids)
              /\ StoredExperience(Persisted', p.id)
                    = StoredExperience(world, p.id) + SumRewardExperience(world, ids)
       /\ \A c \in Calls :
            (pc[c] \in {"clPlayer", "clRow", "clAchievement"} /\ pc'[c] = "done") =>
               /\ db' = db
               /\ inTxn' = inTxn
               /\ snap' = snap]_vars

\* C27: pricing never propagates a defect. Whatever the stock line (basePrice
\* missing or not numeric, grade missing), the quote is an integer price.
C27_QuoteIsInteger ==
    \A c \in Calls :
        (req[c].kind = "quote" /\ pc[c] = "quoteSell") => loc[c].price \in Nat

\* The tier of a number of friendship points: stranger < 50 <= acquaintance
\* < 200 <= friend < 500 <= close_friend < 800 <= best_friend.
Tier(points) ==
    CASE points < 50 -> "stranger"
      [] points >= 50 /\ points < 200 -> "acquaintance"
      [] points >= 200 /\ points < 500 -> "friend"
      [] points >= 500 /\ points < 800 -> "close_friend"
      [] points >= 800 -> "best_friend"

\* C28: the friendship points of a relation never decrease and never exceed
\* 1000, and the stored relationship_status is the tier of the stored points.
C28_FriendshipMonotonic ==
    [][\A r \in db.player_merchant_relations :
          \E s \in db'.player_merchant_relations :
             /\ s.player_id = r.player_id
             /\ s.merchant_id = r.merchant_id
             /\ s.friendship_points >= r.friendship_points
             /\ s.friendship_points <= 1000
             /\ s.relationship_status = Tier(s.friendship_points)]_vars

\* C29: trade records are append-only. No step changes or removes a trade
\* record that is durably stored, and the trade records stored since the
\* first call are as many as the trades that returned success.
C29_TradesAppendOnly ==
    [][/\ Persisted.trades \subseteq Persisted'.trades
       /\ Cardinality(Persisted'.trades \ world.trades)
            = Cardinality({c \in Calls : pc'[c] = "done"
                                          /\ result'[c].status = "success"
                                          /\ req'[c].kind \in {"buy", "sell"}})]_vars

\* The preconditions of buy r that fail in `tables`, each by its reason; a
\* precondition on a row that does not exist is not counted.
FailingPreconditions(tables, r) ==
    LET players == {p \in tables.players : p.user_id = r.userId}
        merchants == {m \in tables.merchants : m.id = r.merchantId}
        lines == {m.inventory[findItem(m.inventory, r.item)] :
                     m \in {n \in merchants : findItem(n.inventory, r.item) # 0}}
        quotes == {calculateCurrentPrice(l, m.district, hour, rnd) :
                     l \in lines, m \in merchants,
                     hour \in QuoteHours, rnd \in QuoteRandoms}
    IN  (IF players = {} THEN {"playerNotFound"} ELSE {})
          \cup (IF merchants = {} THEN {"merchantNotFound"} ELSE {})
          \cup (IF \E p \in players, m \in merchants :
                      m.required_license > p.current_license
                 THEN {"licenseRequired"} ELSE {})
          \cup (IF merchants # {} /\ lines = {} THEN {"itemNotFound"} ELSE {})
          \cup (IF \E l \in lines : l.stock <= 0 THEN {"outOfStock"} ELSE {})
          \cup (IF \E p \in players :
                      Cardinality({i \in tables.inventory : i.player_id = p.id})
                         >= p.max_inventory_size
                 THEN {"inventoryFull"} ELSE {})
          \cup (IF \E p \in players, q \in quotes : p.money < q
                 THEN {"insufficientFunds"} ELSE {})
          \cup (IF \E p \in players, m \in merchants :
                      calculateDistance(p.location_lat, p.location_lng,
                                        m.location_lat, m.location_lng)
                         > MaxTradeDistance
                 THEN {"tooFar"} ELSE {})

\* The order in which a buy reports its failing preconditions.
PreconditionOrder ==
    <<"playerNotFound", "merchantNotFound", "licenseRequired", "itemNotFound",
      "outOfStock", "inventoryFull", "insufficientFunds", "tooFar">>

\* The first reason of the order that is among `failing`.
FirstOf(failing) ==
    PreconditionOrder[CHOOSE i \in DOMAIN PreconditionOrder :
                         /\ PreconditionOrder[i] \in failing
                         /\ \A j \in 1..(i - 1) : PreconditionOrder[j] \notin failing]

\* C30: a buy of which several preconditions fail, for the tables as they
\* are at its BEGIN, returns the failure of the first of them in the order
\* player not found, merchant not found, license too low, item not found,
\* out of stock, inventory full, insufficient funds, too far; the eight
\* reasons are distinct.
C30_BuyPreconditionOrder ==
    [][\A c \in Calls :
          ( /\ req[c].kind = "buy"
            /\ pc[c] = "rollback" /\ pc'[c] = "done"
            /\ inTxn
            /\ FailingPreconditions(snap, req[c]) # {} ) =>
             /\ result'[c].status = "failure"
             /\ result'[c].error.kind = FirstOf(FailingPreconditions(snap, req[c]))
             /\ Cardinality({PreconditionOrder[i] : i \in DOMAIN PreconditionOrder}) = 8]_vars

\* C30 witness: a buy returned the inventory-full failure while the funds
\* were short and the merchant too far as well.
C30_Witness ==
    \E c \in Calls :
       /\ req[c].kind = "buy"
       /\ pc[c] = "done"
       /\ result[c].status = "failure"
       /\ result[c].error.kind = "inventoryFull"
       /\ {"inventoryFull", "insufficientFunds", "tooFar"}
             \subseteq FailingPreconditions(world, req[c])

\* ------------------------------------------- claims on a trade's progression

\* The trust points of a player in `tables`.
TrustOf(tables, playerId) ==
    (CHOOSE p \in tables.players : p.id = playerId).trust_points

\* C31: a buy that commits at price p has added exactly 1 trust point and
\* exactly floor(p / 1000) + 5 experience to what the player had at its
\* BEGIN, and the one inventory row it inserted carries p as current price;
\* a sell that commits at price s has added exactly 2 trust points and
\* exactly floor(s / 800) + 8 experience.
C31_TradeProgression ==
    [][\A c \in Calls :
          (pc[c] = "commit" /\ pc'[c] = "done" /\ result'[c].status = "success") =>
             LET p == result'[c].price
                 playerId == loc[c].player.id
             IN  \/ /\ req[c].kind = "buy"
                    /\ TrustOf(db', playerId) = TrustOf(snap, playerId) + 1
                    /\ StoredExperience(db', playerId)
                          = StoredExperience(snap, playerId) + (p \div 1000) + 5
                    /\ \E i \in db'.inventory :
                          /\ db'.inventory \ snap.inventory = {i}
                          /\ i.player_id = playerId
                          /\ i.current_price = p
                 \/ /\ req[c].kind = "sell"
                    /\ TrustOf(db', playerId) = TrustOf(snap, playerId) + 2
                    /\ StoredExperience(db', playerId)
                          = StoredExperience(snap, playerId) + (p \div 800) + 8]_vars

\* C31 witness: the first call bought line "a" at 7150 from a player with
\* 95 experience: trust is up by 1, the experience is 107 and the new row
\* carries 7150.
C31_Witness ==
    \E c \in Calls :
       /\ Succeeded(c) /\ req[c] = Buy("u1", "m1", "a") /\ result[c].price = 7150
       /\ \A d \in Calls \ {c} : pc[d] = "idle"
       /\ StoredExperience(world, "p1") = 95
       /\ StoredExperience(db, "p1") = 107
       /\ TrustOf(db, "p1") = TrustOf(world, "p1") + 1
       /\ \E i \in db.inventory \ world.inventory : i.current_price = 7150

\* --------------------------------- giveExperience, its loop read by read

\* Number of direct calls of giveExperience.
LoopCalls == 1

\* The levels above 1 a catalog may hold and the thresholds it may give them.
CatalogLevels == 2..4

CatalogThresholds == {100, 250}

\* A row of level_requirements; level is the primary key.
LevelRequirement(level, requiredExp) ==
    [level |-> level, required_exp |-> requiredExp, stat_points_reward |-> level,
     skill_points_reward |-> 1]

\* The catalogs: level 1 and any levels above it, with or without gaps, with
\* thresholds that rise with the level or do not.
Catalogs ==
    { {LevelRequirement(1, 0)} \cup {LevelRequirement(l, f[l]) : l \in S} :
        S \in SUBSET CatalogLevels, f \in [CatalogLevels -> CatalogThresholds] }

\* The progress rows of the first player before the grant: none, or a row.
LoopStatsRows ==
    { {} } \cup
    { { [defaultStats("p1") EXCEPT !.level = s[1], !.experience = s[2]] }
        : s \in {<<1, 90>>, <<2, 120>>} }

\* The amounts granted.
LoopAmounts == {-10, 0, 10, 160, 300}

Grant(playerId, expAmount) ==
    [kind |-> "grant", userId |-> playerId, merchantId |-> "", item |-> "",
     amount |-> expAmount]

LoopRequests == {Grant("p1", a) : a \in LoopAmounts}

LoopWorlds ==
    { [players |-> TradeWorld.players, merchants |-> {}, inventory |-> {},
       trades |-> {}, character_stats |-> stats, player_achievements |-> {},
       achievements |-> <<>>, level_requirements |-> catalog] :
        stats \in LoopStatsRows, catalog \in Catalogs }

LoopInit ==
    /\ InitCalls
    /\ db \in LoopWorlds
    /\ world = db
    /\ menu = LoopRequests
    /\ limit = LoopCalls

\* giveExperience(playerId, expAmount) is called when no other call is in
\* flight.
LoopArrive(c) ==
    /\ pc[c] = "idle"
    /\ c <= limit
    /\ isNextSlot(c)
    /\ Alone(c)
    /\ \E r \in menu :
          /\ r.kind = "grant"
          /\ req' = [req EXCEPT ![c] = r]
          /\ loc' = [loc EXCEPT ![c].player = [NoPlayer EXCEPT !.id = r.userId],
                                ![c].exp = r.amount]
    /\ pc' = [pc EXCEPT ![c] = "lpSelect"]
    /\ UNCHANGED <<activeTrades, db, inTxn, snap, result, issued, world, menu, limit, server>>

\* The locals before the loop: newExp = characterStats.experience +
\* expAmount, currentLevel = characterStats.level, nothing to give yet.
beforeLoop(l, stats) ==
    [l EXCEPT !.stats = stats, !.newExp = stats.experience + l.exp,
              !.level = stats.level, !.statPoints = 0, !.skillPoints = 0]

\* SELECT * FROM character_stats WHERE player_id = ?
LoopSelect(c) ==
    /\ pc[c] = "lpSelect"
    /\ Issue(c)
    /\ LET rows == Get({s \in db.character_stats : s.player_id = loc[c].player.id}) IN
         IF rows = {}
         THEN /\ pc' = [pc EXCEPT ![c] = "lpInsert"]
              /\ UNCHANGED loc
         ELSE /\ pc' = [pc EXCEPT ![c] = "lpRead"]
              /\ loc' = [loc EXCEPT ![c] = beforeLoop(@, CHOOSE s \in rows : TRUE)]
    /\ UNCHANGED <<activeTrades, db, inTxn, snap, req, result, world, menu, limit, server>>

\* A statement of a direct call failed: the catch block of giveExperience
\* throws the error on to the caller.
LoopThrow(c, kind) ==
    /\ result' = [result EXCEPT ![c] =
          [NoResult EXCEPT !.status = "thrown", !.error = Error(kind)]]
    /\ pc' = [pc EXCEPT ![c] = "done"]
    /\ loc' = [loc EXCEPT ![c] = NoLoc]

\* INSERT INTO character_stats (player_id) VALUES (?): refused when another
\* call has inserted the player's row in between.
LoopInsert(c) ==
    /\ pc[c] = "lpInsert"
    /\ Issue(c)
    /\ IF \E s \in db.character_stats : s.player_id = loc[c].player.id
       THEN /\ LoopThrow(c, "uniqueConstraint")
            /\ UNCHANGED db
       ELSE /\ db' = [db EXCEPT !.character_stats =
                        @ \cup {defaultStats(loc[c].player.id)}]
            /\ pc' = [pc EXCEPT ![c] = "lpSelectAgain"]
            /\ UNCHANGED <<loc, result>>
    /\ UNCHANGED <<activeTrades, inTxn, snap, req, world, menu, limit, server>>

\* The second SELECT, after the INSERT (no statement deletes a row).
LoopSelectAgain(c) ==
    /\ pc[c] = "lpSelectAgain"
    /\ Issue(c)
    /\ \E s \in db.character_stats :
          /\ s.player_id = loc[c].player.id
          /\ loc' = [loc EXCEPT ![c] = beforeLoop(@, s)]
    /\ pc' = [pc EXCEPT ![c] = "lpRead"]
    /\ UNCHANGED <<activeTrades, db, inTxn, snap, req, result, world, menu, limit, server>>

\* Mutant: the threshold has to be passed, not reached.
loopBreaks_atThreshold(nextLevelReq, newExp) ==
    nextLevelReq = {} \/ newExp <= (CHOOSE r \in nextLevelReq : TRUE).required_exp

\* !nextLevelReq || newExp < nextLevelReq.required_exp
loopBreaks(nextLevelReq, newExp) ==
    nextLevelReq = {} \/ newExp < (CHOOSE r \in nextLevelReq : TRUE).required_exp

\* One pass of the while (true) loop: SELECT * FROM level_requirements WHERE
\* level = currentLevel + 1, then break, or advance and accumulate.
LoopRead(c) ==
    /\ pc[c] = "lpRead"
    /\ Issue(c)
    /\ LET nextLevelReq == Get({r \in db.level_requirements :
                                   r.level = loc[c].level + 1})
       IN  IF loopBreaks(nextLevelReq, loc[c].newExp)
           THEN /\ pc' = [pc EXCEPT ![c] = "geUpdate"]
                /\ UNCHANGED loc
           ELSE LET r == CHOOSE r \in nextLevelReq : TRUE IN
                  /\ loc' = [loc EXCEPT ![c].level = @ + 1,
                                        ![c].statPoints = @ + r.stat_points_reward,
                                        ![c].skillPoints = @ + r.skill_points_reward]
                  /\ UNCHANGED pc
    /\ UNCHANGED <<activeTrades, db, inTxn, snap, req, result, world, menu, limit, server>>

\* The object giveExperience returns.
LoopReturn(c) ==
    /\ pc[c] = "lpReturn"
    /\ result' = [result EXCEPT ![c] =
          [status |-> "success", error |-> NoError, price |-> 0, newMoney |-> 0,
           newTrustPoints |-> 0, newExperience |-> loc[c].newExp,
           oldLevel |-> loc[c].stats.level, newLevel |-> loc[c].level,
           statPointsGained |-> loc[c].statPoints,
           skillPointsGained |-> loc[c].skillPoints]]
    /\ pc' = [pc EXCEPT ![c] = "done"]
    /\ loc' = [loc EXCEPT ![c] = NoLoc]
    /\ UNCHANGED <<activeTrades, db, inTxn, snap, req, issued, world, menu, limit, server>>

\* A step of a direct call of giveExperience after its arrival.
LoopStep(c) ==
    \/ LoopSelect(c)
    \/ LoopInsert(c)
    \/ LoopSelectAgain(c)
    \/ LoopRead(c)
    \/ GeUpdate(c)
    \/ LoopReturn(c)

LoopNext == \E c \in Calls : LoopArrive(c) \/ LoopStep(c)

\* Direct calls of giveExperience over every catalog, one after the other;
\* the connection completes every statement and the event loop resumes the
\* call that awaits it.
LoopSpec == LoopInit /\ [][LoopNext]_vars /\ \A c \in Calls : WF_vars(LoopStep(c))

\* C32: a call of giveExperience that has read the progress row returns, and
\* the level L its UPDATE stores is such that every level from the old one
\* plus 1 to L has a row in the catalog whose required_exp is at most the new
\* experience, and level L + 1 has no row or requires more than the new
\* experience.
C32_LevelLoopTerminates ==
    /\ \A c \in Calls : (pc[c] = "lpRead") ~> (pc[c] = "done")
    /\ [][\A c \in Calls :
            (req[c].kind = "grant" /\ pc[c] = "geUpdate" /\ pc'[c] # "geUpdate") =>
               \E s \in db'.character_stats :
                  /\ s.player_id = loc[c].player.id
                  /\ s.experience = loc[c].stats.experience + req[c].amount
                  /\ s.level >= loc[c].stats.level
                  /\ \A k \in (loc[c].stats.level + 1)..s.level :
                        \E r \in db.level_requirements :
                           r.level = k /\ r.required_exp <= s.experience
                  /\ \A r \in db.level_requirements :
                        r.level = s.level + 1 => r.required_exp > s.experience]_vars

\* C32 witness: the catalog has levels 1, 2 and 4 (no level 3), all within
\* the new experience, and the call has returned with the player at level 2.
C32_Witness ==
    \E c \in Calls :
       /\ pc[c] = "done" /\ req[c].kind = "grant"
       /\ {r.level : r \in db.level_requirements} = {1, 2, 4}
       /\ \A r \in db.level_requirements : r.required_exp <= result[c].newExperience
       /\ result[c].oldLevel = 1 /\ result[c].newLevel = 2
       /\ \E s \in db.character_stats : s.player_id = "p1" /\ s.level = 2

\* ------------------------- experience grants and POST /character/levelup

\* Number of calls in the runs of grants and level-up requests.
RewardCalls == 2

LevelUp(userId) == [kind |-> "levelup", userId |-> userId, merchantId |-> "", item |-> ""]

RewardRequests == {Grant("p1", 10), Grant("p1", 160), LevelUp("u1"), LevelUp("u404")}

\* The first player without a progress row, with a row below the threshold
\* of level 2, and with a row whose level is behind its experience (as when
\* createInitialData adds levels to the catalog after the experience was
\* earned); the catalog is the seeded one.
RewardWorlds ==
    { [players |-> TradeWorld.players, merchants |-> {}, inventory |-> {},
       trades |-> {}, character_stats |-> stats, player_achievements |-> {},
       achievements |-> <<>>, level_requirements |-> LevelRows] :
        stats \in { {}, {[defaultStats("p1") EXCEPT !.experience = 90]},
                        {[defaultStats("p1") EXCEPT !.experience = 120]} } }

RewardInit ==
    /\ InitCalls
    /\ db \in RewardWorlds
    /\ world = db
    /\ menu = RewardRequests
    /\ limit = RewardCalls

\* giveExperience is called, or a request to the level-up route arrives,
\* whatever other calls are in flight.
RewardArrive(c) ==
    /\ pc[c] = "idle"
    /\ c <= limit
    /\ isNextSlot(c)
    /\ \E r \in menu :
          /\ req' = [req EXCEPT ![c] = r]
          /\ IF r.kind = "grant"
             THEN /\ loc' = [loc EXCEPT ![c].player = [NoPlayer EXCEPT !.id = r.userId],
                                        ![c].exp = r.amount]
                  /\ pc' = [pc EXCEPT ![c] = "lpSelect"]
             ELSE /\ r.kind = "levelup"
                  /\ pc' = [pc EXCEPT ![c] = "luPlayer"]
                  /\ UNCHANGED loc
    /\ UNCHANGED <<activeTrades, db, inTxn, snap, result, issued, world, menu, limit, server>>

\* const player = await db.getPlayerByUserId(req.user.userId)
LevelUpGetPlayer(c) ==
    /\ pc[c] = "luPlayer"
    /\ Issue(c)
    /\ LET player == playerOf(db, req[c].userId) IN
         IF player = {}
         THEN /\ StatsFail(c, "playerNotFound")
              /\ UNCHANGED loc
         ELSE /\ loc' = [loc EXCEPT ![c].player = CHOOSE p \in player : TRUE]
              /\ pc' = [pc EXCEPT ![c] = "luSelect"]
              /\ UNCHANGED result
    /\ UNCHANGED <<activeTrades, db, inTxn, snap, req, world, menu, limit, server>>

\* SELECT * FROM character_stats WHERE player_id = ?
LevelUpSelect(c) ==
    /\ pc[c] = "luSelect"
    /\ Issue(c)
    /\ LET currentStats ==
             Get({s \in db.character_stats : s.player_id = loc[c].player.id}) IN
         IF currentStats = {}
         THEN /\ StatsFail(c, "statsNotFound")
              /\ UNCHANGED loc
         ELSE /\ loc' = [loc EXCEPT ![c].stats = CHOOSE s \in currentStats : TRUE]
              /\ pc' = [pc EXCEPT ![c] = "luRead"]
              /\ UNCHANGED result
    /\ UNCHANGED <<activeTrades, db, inTxn, snap, req, world, menu, limit, server>>

\* SELECT * FROM level_requirements WHERE level = currentStats.level + 1,
\* then the two checks and the locals of the level-up.
LevelUpRead(c) ==
    /\ pc[c] = "luRead"
    /\ Issue(c)
    /\ LET nextLevelReq == Get({r \in db.level_requirements :
                                   r.level = loc[c].stats.level + 1})
       IN  IF nextLevelReq = {}
           THEN /\ StatsFail(c, "maxLevel")
                /\ UNCHANGED loc
           ELSE LET r == CHOOSE r \in nextLevelReq : TRUE IN
                  IF loc[c].stats.experience < r.required_exp
                  THEN /\ StatsFail(c, "notEnoughExperience")
                       /\ UNCHANGED loc
                  ELSE /\ loc' = [loc EXCEPT ![c].level = loc[c].stats.level + 1,
                                             ![c].statPoints = r.stat_points_reward,
                                             ![c].skillPoints = r.skill_points_reward]
                       /\ pc' = [pc EXCEPT ![c] = "luUpdate"]
                       /\ UNCHANGED result
    /\ UNCHANGED <<activeTrades, db, inTxn, snap, req, world, menu, limit, server>>

\* UPDATE character_stats SET level = ?, stat_points = stat_points + ?,
\* skill_points = skill_points + ? WHERE player_id = ?
LevelUpUpdate(c) ==
    /\ pc[c] = "luUpdate"
    /\ Issue(c)
    /\ db' = [db EXCEPT !.character_stats =
                { IF s.player_id = loc[c].player.id
                  THEN [s EXCEPT !.level = loc[c].level,
                                 !.stat_points = @ + loc[c].statPoints,
                                 !.skill_points = @ + loc[c].skillPoints]
                  ELSE s : s \in db.character_stats }]
    /\ pc' = [pc EXCEPT ![c] = "luReturn"]
    /\ UNCHANGED <<activeTrades, inTxn, snap, req, loc, result, world, menu, limit, server>>

\* SELECT * FROM character_stats WHERE player_id = ? and the response.
LevelUpReturn(c) ==
    /\ pc[c] = "luReturn"
    /\ Issue(c)
    /\ result' = [result EXCEPT ![c] =
          [status |-> "success", error |-> NoError, price |-> 0, newMoney |-> 0,
           newTrustPoints |-> 0, oldLevel |-> loc[c].stats.level,
           newLevel |-> loc[c].level, statPointsGained |-> loc[c].statPoints,
           skillPointsGained |-> loc[c].skillPoints]]
    /\ pc' = [pc EXCEPT ![c] = "done"]
    /\ loc' = [loc EXCEPT ![c] = NoLoc]
    /\ UNCHANGED <<activeTrades, db, inTxn, snap, req, world, menu, limit, server>>

\* A step of a request to the level-up route.
LevelUpStep(c) ==
    \/ LevelUpGetPlayer(c)
    \/ LevelUpSelect(c)
    \/ LevelUpRead(c)
    \/ LevelUpUpdate(c)
    \/ LevelUpReturn(c)

RewardNext == \E c \in Calls : RewardArrive(c) \/ LoopStep(c) \/ LevelUpStep(c)

\* Calls of giveExperience and requests to the level-up route for one player,
\* interleaving at each await.
RewardSpec == RewardInit /\ [][RewardNext]_vars

\* ------------------------- PUT /character/stats next to experience grants

\* Number of calls in the runs of stat allocations and grants.
AllocCalls == 2

\* Allocations of one or two points to one stat, of two points mixed with a
\* lowered stat, and grants below and at the threshold of level 2.
AllocRequests ==
    {StatsRequest("u1", [strength |-> s, intelligence |-> i, charisma |-> 0, luck |-> 0]) :
        s \in {0, 9, 11, 12}, i \in {0, 12}}
      \cup {Grant("p1", 10), Grant("p1", 100)}

\* The first player without a progress row or with one holding 0, 2 or 3
\* unspent stat points; the catalog is the seeded one.
AllocWorlds ==
    { [players |-> TradeWorld.players, merchants |-> {}, inventory |-> {},
       trades |-> {}, character_stats |-> rows, player_achievements |-> {},
       achievements |-> <<>>, level_requirements |-> LevelRows] :
        rows \in {{}} \cup {{StatsRow("p1", n)} : n \in {0, 2, 3}} }

AllocInit ==
    /\ InitCalls
    /\ db \in AllocWorlds
    /\ world = db
    /\ menu = AllocRequests
    /\ limit = AllocCalls

AllocNext ==
    \E c \in Calls :
       \/ StatsArrive(c)
       \/ StatsGetPlayer(c)
       \/ StatsSelect(c)
       \/ StatsUpdate(c)
       \/ StatsReturn(c)
       \/ RewardArrive(c)
       \/ LoopStep(c)

\* Requests to PUT /character/stats and calls of giveExperience for one
\* player, interleaving at each await.
AllocSpec == AllocInit /\ [][AllocNext]_vars

\* The same requests and calls, one after the other.
AllocSoloNext ==
    \E c \in Calls :
       \/ Alone(c) /\ StatsArrive(c)
       \/ StatsGetPlayer(c)
       \/ StatsSelect(c)
       \/ StatsUpdate(c)
       \/ StatsReturn(c)
       \/ Alone(c) /\ RewardArrive(c)
       \/ LoopStep(c)

AllocSoloSpec == AllocInit /\ [][AllocSoloNext]_vars

\* ------------------------------------- the server's price-update timer

\* The calls of setupSocket, the ticks of a timer and the sockets a run holds.
MaxSetups == 3

MaxTicks == 2

Sockets == {"s1", "s2"}

\* The tables, the calls and the scenario play no part in these runs.
ServerInit ==
    /\ InitCalls
    /\ db = NoTables
    /\ world = NoTables
    /\ menu = {}
    /\ limit = 0

\* Mutant: the guard of setupSocket never finds a timer.
alreadyScheduled_never(s) == FALSE

\* if (!this.priceUpdateInterval): the field holds a timer handle.
alreadyScheduled(s) == s.priceUpdateInterval /= 0

\* A handle setInterval has not returned before.
freshTimer(s) == s.setups + 1

\* The constructor has run: it ends with the first call of setupSocket, and
\* start, stop and the clients come after it.
constructed(s) == s.setups > 0

UnchangedCalls ==
    UNCHANGED <<activeTrades, db, inTxn, snap, pc, req, loc, result, issued,
                world, menu, limit>>

\* setupSocket(): the connection handler is registered, and a timer is
\* scheduled unless the field holds one.  The constructor calls it once.
SetupSocket ==
    /\ ~server.exited
    /\ server.setups < MaxSetups
    /\ server' =
          IF alreadyScheduled(server)
          THEN [server EXCEPT !.setups = @ + 1]
          ELSE [server EXCEPT !.setups = @ + 1,
                              !.priceUpdateInterval = freshTimer(server),
                              !.timers = @ \cup {freshTimer(server)}]
    /\ UnchangedCalls

\* initializeDatabase(): this.gameService = new GameService(this.db)
InitializeDatabase ==
    /\ ~server.exited
    /\ constructed(server)
    /\ ~server.gameService
    /\ ~server.dbClosed
    /\ server' = [server EXCEPT !.gameService = TRUE]
    /\ UnchangedCalls

\* A client connects: this.connectedClients.set(socket.id, ...)
Connect(s) ==
    /\ ~server.exited
    /\ ~server.ioClosed
    /\ constructed(server)
    /\ s \notin server.connectedClients
    /\ server' = [server EXCEPT !.connectedClients = @ \cup {s}]
    /\ UnchangedCalls

\* socket.on('disconnect'): this.connectedClients.delete(socket.id)
Disconnect(s) ==
    /\ ~server.exited
    /\ s \in server.connectedClients
    /\ server' = [server EXCEPT !.connectedClients = @ \ {s}]
    /\ UnchangedCalls

\* A scheduled timer fires and broadcastPriceUpdates() starts: it returns
\* when there is no game service, else it awaits getCurrentPrices().
Tick(t) ==
    /\ ~server.exited
    /\ t \in server.timers
    /\ server.ticks < MaxTicks
    /\ server' =
          IF ~server.gameService
          THEN [server EXCEPT !.ticks = @ + 1, !.skipped = @ + 1]
          ELSE [server EXCEPT !.ticks = @ + 1, !.pending = @ + 1]
    /\ UnchangedCalls

\* getCurrentPrices() resolves and this.io.emit('priceUpdate', ...) runs:
\* every connected socket is sent the update.  After io.close() no socket
\* is connected.
BroadcastEmit ==
    /\ ~server.exited
    /\ server.pending > 0
    /\ server' = [server EXCEPT !.pending = @ - 1,
                                !.emits = @ + 1,
                                !.delivered = @ + Cardinality(server.connectedClients)]
    /\ UnchangedCalls

\* getCurrentPrices() rejects (the database is closed) and the catch block
\* logs the error.
BroadcastFail ==
    /\ ~server.exited
    /\ server.pending > 0
    /\ server.dbClosed
    /\ server' = [server EXCEPT !.pending = @ - 1]
    /\ UnchangedCalls

\* stop(): clearInterval of the timer the field holds (the field keeps the
\* handle), io.close() disconnects every socket, the database is closed and
\* the HTTP server is asked to close.
Stop ==
    /\ ~server.exited
    /\ constructed(server)
    /\ server' = [server EXCEPT !.timers = @ \ {server.priceUpdateInterval},
                                !.ioClosed = TRUE,
                                !.connectedClients = {},
                                !.dbClosed = TRUE,
                                !.stopped = TRUE]
    /\ UnchangedCalls

\* The callback of this.server.close: process.exit(0).
Exit ==
    /\ server.stopped
    /\ ~server.exited
    /\ server' = [server EXCEPT !.exited = TRUE]
    /\ UnchangedCalls

ServerNext ==
    \/ SetupSocket
    \/ InitializeDatabase
    \/ \E s \in Sockets : Connect(s)
    \/ \E s \in Sockets : Disconnect(s)
    \/ \E t \in 1..MaxSetups : Tick(t)
    \/ BroadcastEmit
    \/ BroadcastFail
    \/ Stop
    \/ Exit

\* One GameServer: setupSocket called again and again, the start, clients,
\* timer ticks and stop in any order.
ServerSpec == ServerInit /\ [][ServerNext]_vars

\* --------------------------------------- trades of a player who collects

\* Number of trades in the runs of the collector.
CollectCalls == 1

\* The catalog of the collector's runs: the first trade, and a number of
\* distinct items that no run reaches.
CollectAchievements ==
    << [id |-> "first_trade", condition_type |-> "trade_count", condition_value |-> 1],
       [id |-> "collector", condition_type |-> "unique_items", condition_value |-> 10] >>

\* The inventory rows the first player may own before the first trade.
CollectItems ==
    { [id |-> "inv0", player_id |-> "p1", item_id |-> "it_a", item_name |-> "a",
       current_price |-> 6000],
      [id |-> "inv8", player_id |-> "p1", item_id |-> "it_b", item_name |-> "b",
       current_price |-> 4000] }

\* The first player owns one or both rows and has room for more; the progress
\* row of the collector is absent (w[2] = 0), or is as a check with these rows
\* left it.
CollectWorlds ==
    { [TradeWorld EXCEPT
         !.players = { [p EXCEPT !.max_inventory_size = 4] : p \in TradeWorld.players },
         !.inventory = w[1],
         !.achievements = CollectAchievements,
         !.player_achievements =
             IF w[2] = 0 THEN {}
             ELSE {ProgressRow("collector", Cardinality(w[1]), 0, 0, 0)}] :
        w \in (SUBSET CollectItems \ {{}}) \X {0, 1} }

CollectRequests == TradeRequests \cup {Sell("u1", "inv8", "m1")}

CollectInit ==
    /\ InitCalls
    /\ db \in CollectWorlds
    /\ world = db
    /\ menu = CollectRequests
    /\ limit = CollectCalls

\* Trades of the collector, one after the other.
CollectSpec == CollectInit /\ [][SoloNext]_vars

\* ------------------------------------------------- claims on the progress

\* The statements of checkAchievements.
CheckingAt == {"caSelectAll", "caCompleted", "caRow", "caProgress", "caWrite"}

C34_CompletionMatchesProgress ==
    \A a \in db.player_achievements :
       \A i \in DOMAIN db.achievements :
          db.achievements[i].id = a.achievement_id =>
             /\ a.is_completed \in {0, 1}
             /\ (a.is_completed = 1) <=> (a.progress >= db.achievements[i].condition_value)
             /\ (a.completed_at # 0) <=> (a.is_completed = 1)

\* C34 witness: a completed row, stamped with the call that completed it, and
\* a row that is not completed have been written while two checks overlap:
\* one is still checking, the other has not returned yet.
C34_Witness ==
    /\ \E a \in db.player_achievements \ world.player_achievements :
          a.is_completed = 1 /\ a.completed_at \in Calls
    /\ \E b \in db.player_achievements \ world.player_achievements :
          b.is_completed = 0 /\ b.progress > 0
    /\ \E c, d \in Calls : pc[c] \in CheckingAt /\ pc[d] = "ckReturn"

\* -------------------------------------------- claims on interleaved trades

\* C35: once two trades with different keys have both returned and no call
\* is in flight, the outcome is one that running them one after the other
\* can give: each returned success or the failure of a precondition (a
\* BEGIN, COMMIT or ROLLBACK never fails in a serial run), the stored trade
\* records are those of the trades that succeeded, and the player's stored
\* money is the initial money less the prices of the successful buys plus
\* those of the successful sells.
C35_UnrelatedTradesSerializable ==
    \A c, d \in Calls :
       ( /\ c # d /\ Quiet /\ Returned(c) /\ Returned(d)
         /\ req[c].kind \in {"buy", "sell"} /\ req[d].kind \in {"buy", "sell"}
         /\ tradeKey(req[c]) # tradeKey(req[d]) ) =>
          /\ \A e \in {c, d} :
                \/ result[e].status = "success"
                \/ /\ result[e].status = "failure"
                   /\ result[e].error.kind \in PreconditionKinds
          /\ {t.id : t \in Persisted.trades} = {e \in Calls : Succeeded(e)}
          /\ \A p \in world.players :
                MoneyOf(Persisted, p.id) =
                   p.money
                     - SumPrices({e \in SuccessfulBuys : req[e].userId = p.user_id})
                     + SumPrices({e \in SuccessfulSells : req[e].userId = p.user_id})

RECURSIVE RewardsBetween(_, _, _)
RewardsBetween(catalog, from, to) ==
    IF to <= from THEN [stat |-> 0, skill |-> 0]
    ELSE LET rest == RewardsBetween(catalog, from, to - 1)
             rows == {r \in catalog : r.level = to}
         IN  IF rows = {} THEN rest
             ELSE [stat |-> rest.stat + (CHOOSE r \in rows : TRUE).stat_points_reward,
                   skill |-> rest.skill + (CHOOSE r \in rows : TRUE).skill_points_reward]

\* The row a player starts from: the stored one, or the defaults of the row
\* that is created on the first grant.
InitialStats(playerId) ==
    LET rows == {s \in world.character_stats : s.player_id = playerId} IN
      IF rows = {} THEN defaultStats(playerId) ELSE CHOOSE s \in rows : TRUE

\* C37: in every state the stat points and the skill points added to a
\* player's row since the start are the rewards of the levels above the
\* initial level up to the current one, each counted once.
C37_LevelRewardOnce ==
    \A s \in db.character_stats :
       LET first == InitialStats(s.player_id)
           due == RewardsBetween(db.level_requirements, first.level, s.level)
       IN  /\ s.stat_points - first.stat_points = due.stat
           /\ s.skill_points - first.skill_points = due.skill

\* ------------------------------------------------ claims on the stat points

\* The points a row has spent on its four stats, each starting at 10.
SpentPoints(s) == s.strength + s.intelligence + s.charisma + s.luck - 40

\* C38: in every state the unspent stat points of a row are not negative,
\* and the spent and the unspent points together are the points the row
\* started with plus the rewards of the levels gained since.
C38_StatPointsConserved ==
    \A s \in db.character_stats :
       LET first == InitialStats(s.player_id)
           due == RewardsBetween(db.level_requirements, first.level, s.level)
       IN  /\ s.stat_points >= 0
           /\ SpentPoints(s) + s.stat_points
                 = SpentPoints(first) + first.stat_points + due.stat

\* ------------------------------------------- claims on a trade's response

\* C39: when a trade's COMMIT succeeds, the newMoney and the newTrustPoints
\* of the result it returns are the money and the trust points the player's
\* row holds right after that COMMIT.
C39_ResponseMatchesPersisted ==
    [][\A c \in Calls :
          (pc[c] = "commit" /\ pc'[c] = "done" /\ result'[c].status = "success") =>
             /\ result'[c].newMoney = MoneyOf(db', loc[c].player.id)
             /\ result'[c].newTrustPoints = TrustOf(db', loc[c].player.id)]_vars

\* ------------------------------------------------ claims on the price timer

====
